---- MODULE Spec2Model ----
(***************************************************************************)
(* KidzOut crawler (src/crawler.py): the per-domain throttle               *)
(* (SmartRateLimiter), the retrying fetcher (SessionManager.get), the      *)
(* source quality tracker with the harvest dispatch, the geocoder with    *)
(* its cache, the merge of the harvested records, main with the output    *)
(* file, the worker threads on the shared counters and inside the        *)
(* throttle, the extraction of the structured data of a page with the    *)
(* way out of its harvest, the threads of a run and the geocoder, and     *)
(* the text functions (map_category, short, normalize_date, the           *)
(* enrichment, the fallback scan of harvest_html).                        *)
(*                                                                         *)
(* Time is counted in whole seconds.  With RATE_LIMIT_DEFAULT = 2 the      *)
(* throttle interval 2 * (1 + 0.5 * n) is the integer 2 + n, so nothing    *)
(* is rounded.  The code compares differences of time.time() values only,  *)
(* so the model keeps the differences (the age of each last request)       *)
(* instead of the clock.                                                   *)
(***************************************************************************)
EXTENDS Integers, Sequences, FiniteSets, TLC

VARIABLES
    elapsed,            \* per domain of SmartRateLimiter.last_request: the
                        \* seconds since that request, time.time() -
                        \* last_request[domain], counted up to LimitCap
    failure_count,      \* SmartRateLimiter.failure_count: domain -> int
    gpc,                \* SessionManager.get: "idle", "loop" or "done"
    gurl,               \* url of the get call in progress
    attempt,            \* loop variable of get
    resps,              \* statuses received by the get call so far
    glog,               \* what the get call did: "wait", "req", "sleep"
    slept,              \* backoff seconds slept inside the get call
    result,             \* "pending", "Response" or "None"
    fc0,                \* failure_count of the domain when get was called
    last_wait,          \* what the wait() of the get call computed and did
    stats,              \* SourceQualityTracker.stats: url -> entry
    stats_file,         \* the content of STATS_FILE
    phase,              \* "idle", "events" (get_events_from_all_sources)
                        \* or "locations" (get_locations_from_all_sources)
    todo,               \* sources of the phase not crawled yet
    returned,           \* source crawled in the phase -> records returned
    skipped,            \* sources the phase skipped for low quality
    fetched,            \* source crawled in the phase -> the call that
                        \* sent its HTTP request, "none" without a request
    cache,              \* Geocoder.cache: key -> [lat, lon] or None
    cache_file,         \* the content of GEOCODE_CACHE_FILE
    geo_elapsed,        \* time.time() - Geocoder.last_request_time, in
                        \* seconds, counted up to GeoSpacing
    since_sent,         \* seconds since the geocoder last sent a request,
                        \* counted up to GeoSpacing
    sent_any,           \* the geocoder has sent a request
    gaps,               \* <<seconds between its two latest requests>>
    calls,              \* cache key -> the geocode calls made for it
    emitted,            \* the location record enrich_location returned
                        \* last: its embedded and its final coordinates
    m_kind,             \* merge/dedup of "events" or of "locations"
    m_in,               \* all_events / all_locations before the dedup loop
    m_out,              \* unique_events / unique_locations, None before it
    mpc,                \* main: "none", "events", "geocoder", "locations"
    runs,               \* the runs of main started so far
    manual_events,      \* main: the events of manual_events.json
    all_events,         \* all_events / all_locations of the function main
                        \* is in
    main_events,        \* main: all_events = manual_events + crawled_events
    output_file,        \* the content of OUTPUT_FILE, None without the file
    wrote,              \* what the last run of main read and wrote
    wpc,                \* worker -> where it is inside record_failure,
                        \* record_success or record, "idle" outside
    wtmp,               \* worker -> the value it has read and not yet
                        \* written back
    wdict,              \* worker -> the stats[url] dict object it holds
    wsuccess,           \* worker -> the success argument of its record call
    dict_id,            \* the dict object that is stats[url] now
    started,            \* the calls started by the workers so far
    done,               \* the calls that have returned, by kind
    wait_gap,           \* <<seconds between the two latest returns of wait
                        \* for the domain>>, <<>> before the second return
    x_kind,             \* the page is harvested for "events" (harvest_html)
                        \* or for "locations" (harvest_locations)
    x_blocks,           \* the ld+json script blocks of the page done so far
    x_found,            \* the records built from the blocks so far, as a
                        \* set: their order and number play no part
    x_expected,         \* the well-formed, named entries of a target type
                        \* in the blocks so far
    x_malformed,        \* a block so far was or held a malformed entry
    x_aborted,          \* an exception has left the loop over the blocks
    x_ret,              \* what the harvest of the page returned and
                        \* recorded, NotReturned while it is running
    t_op,               \* the function applied last, "none" before
    t_in,               \* its argument
    t_out,              \* what it returned
    u_phase,            \* the run of main is in "events", "locations" or
                        \* over ("done")
    u_todo,             \* the sources of the phase no thread has taken yet
    u_at,               \* thread -> what it is doing: "idle", "crawl" (in
                        \* the harvest of a source), "geocode" (inside
                        \* Geocoder.geocode) or "enriched" (in the
                        \* harvest, back from geocode)
    u_left              \* thread -> the records of its harvest that are
                        \* not enriched yet

fetchVars == <<elapsed, failure_count, gpc, gurl, attempt, resps, glog,
               slept, result, fc0, last_wait>>

qualityVars == <<stats, stats_file, phase, todo, returned, skipped, fetched>>

geoVars == <<cache, cache_file, geo_elapsed, since_sent, sent_any, gaps,
             calls, emitted>>

mergeVars == <<m_kind, m_in, m_out>>

mainVars == <<mpc, runs, manual_events, all_events, main_events, output_file,
              wrote>>

workerVars == <<wpc, wtmp, wdict, wsuccess, dict_id, started, done,
               wait_gap>>

extractVars == <<x_kind, x_blocks, x_found, x_expected, x_malformed,
                 x_aborted, x_ret>>

textVars == <<t_op, t_in, t_out>>

unitVars == <<u_phase, u_todo, u_at, u_left>>

vars == <<fetchVars, qualityVars, geoVars, mergeVars, mainVars, workerVars,
          extractVars, textVars, unitVars>>

\* what the actions of one component leave alone; the harvest runs inside
\* main or is called by itself, so its actions say nothing about mainVars
notFetch == <<textVars, unitVars, extractVars, qualityVars, geoVars, mergeVars, mainVars, workerVars>>

notQuality == <<textVars, unitVars, extractVars, fetchVars, geoVars, mergeVars, workerVars>>

notGeo == <<textVars, unitVars, extractVars, fetchVars, qualityVars, mergeVars, mainVars, workerVars>>

notMerge == <<textVars, unitVars, extractVars, fetchVars, qualityVars, geoVars, mainVars, workerVars>>

notExtract == <<fetchVars, qualityVars, geoVars, mergeVars, mainVars,
                workerVars, textVars, unitVars>>

notText == <<fetchVars, qualityVars, geoVars, mergeVars, mainVars,
             workerVars, extractVars, unitVars>>

notUnits == <<fetchVars, qualityVars, geoVars, mergeVars, mainVars,
              workerVars, extractVars, textVars>>

\* the worker threads share failure_count and stats with the rest
notWorkers == <<elapsed, gpc, gurl, attempt, resps, glog, slept, result, fc0,
                last_wait, stats_file, phase, todo, returned, skipped, fetched,
                geoVars, mergeVars, mainVars, extractVars, textVars, unitVars, wait_gap>>

\* the workers inside wait share last_request
notWait == <<failure_count, gpc, gurl, attempt, resps, glog, slept, result,
             fc0, last_wait, qualityVars, geoVars, mergeVars, mainVars,
             extractVars, textVars, unitVars, wdict, wsuccess, dict_id, done>>

----------------------------------------------------------------------------
(* Bounds of the model *)

\* record_failure is not called once a domain has this many failures
MaxFailures == 10

\* no source is harvested once the stats hold this many attempts in all
MaxAttempts == 11

\* a harvest of one source returns at most this many records
MaxItems == 1

\* one Geocoder is called at most this many times for one cache key
MaxCalls == 2

\* at most this many records go into one merge/dedup
MaxRecords == 3

\* main runs at most this many times
MaxRuns == 1

\* this many of the MAX_WORKERS threads of the pool are at work
NWorkers == 2

\* the workers make at most this many calls in all
MaxOps == 3

\* a page holds at most this many ld+json script blocks
MaxBlocks == 3

\* an @graph collection or a list holds at most this many items
MaxEntries == 2

\* the texts handed to short have at most this many characters
MaxText == 4

\* the limits handed to short go up to this
MaxLimit == 3

----------------------------------------------------------------------------
(* Configuration, lines 49-53 *)

MAX_RETRIES == 3

RETRY_BACKOFF == <<2, 5, 10>>

RATE_LIMIT_DEFAULT == 2

\* the cap in min(base_limit * failure_multiplier, 10.0)
LimitCap == 10

\* response.status_code values; EXC stands for requests.RequestException
EXC == 0

Statuses == {200, 429, 403, 404, 500, EXC}

Urls == {"http://a/1", "http://a/2", "http://b/1"}

\* a configured url that urlparse rejects (ValueError: Invalid IPv6 URL)
MalformedUrls == {"http://[a/1"}

Domains == {"a", "b"}

Min(x, y) == IF x < y THEN x ELSE y

Max(x, y) == IF x > y THEN x ELSE y

\* the None of python
None == <<>>

----------------------------------------------------------------------------
(* SmartRateLimiter *)

\* urlparse(url).netloc; for a malformed url urlparse raises and there is
\* no domain
get_domain(url) ==
    CASE url = "http://a/1" -> "a"
      [] url = "http://a/2" -> "a"
      [] url = "http://b/1" -> "b"
      [] url \in MalformedUrls -> "ValueError"

\* self.rate_limits is created empty and never written
rate_limits == [d \in {} |-> 0]

base_limit(domain) ==
    IF domain \in DOMAIN rate_limits THEN rate_limits[domain]
    ELSE RATE_LIMIT_DEFAULT

\* limit = min(base_limit * (1 + n * 0.5), 10.0), computed as
\* min(base_limit * (2 + n) / 2, 10)
\* (the limit without its cap)
limit_NoCap(base, n) == (base * (2 + n)) \div 2

limit(base, n) == Min((base * (2 + n)) \div 2, LimitCap)

\* the seconds wait() sleeps for the domain (lines 102-106)
wait_time(domain) ==
    LET lim == limit(base_limit(domain), failure_count[domain])
    IN  IF domain \in DOMAIN elapsed /\ elapsed[domain] < lim
        THEN lim - elapsed[domain]
        ELSE 0

\* time.sleep(s), or s seconds passing otherwise: every last request is
\* s seconds older; an age of LimitCap or more is kept as LimitCap, since
\* no limit is greater
later(el, s) == [d \in DOMAIN el |-> Min(el[d] + s, LimitCap)]

\* (a success that resets the counter instead of lowering it)
record_success_Reset(fc, domain) ==
    IF fc[domain] > 0 THEN [fc EXCEPT ![domain] = 0] ELSE fc

record_success(fc, domain) ==
    IF fc[domain] > 0
    THEN [fc EXCEPT ![domain] = Max(0, fc[domain] - 1)]
    ELSE fc

record_failure(fc, domain) == [fc EXCEPT ![domain] = fc[domain] + 1]

----------------------------------------------------------------------------
(* SessionManager.get *)

\* (the first delay of the table for every attempt)
backoff_First(a) == RETRY_BACKOFF[1]

\* RETRY_BACKOFF[min(attempt, len(RETRY_BACKOFF) - 1)], 0-based attempt
backoff(a) == RETRY_BACKOFF[Min(a, Len(RETRY_BACKOFF) - 1) + 1]

\* the loop of get ends after the attempt numbered MAX_RETRIES - 1
LastAttempt == attempt = MAX_RETRIES - 1

NoWait == [domain |-> "a", n |-> 0, limit |-> 0, had_prev |-> FALSE,
           before |-> 0, sleep |-> 0]

\* line 140: rate_limiter.wait(url), then the loop is entered
GetStart(url) ==
    LET d == get_domain(url)
        w == wait_time(d)
    IN  /\ gpc = "idle"
        /\ elapsed' = (d :> 0) @@ later(elapsed, w)
        /\ last_wait' = [domain |-> d, n |-> failure_count[d],
                         limit |-> limit(base_limit(d), failure_count[d]),
                         had_prev |-> d \in DOMAIN elapsed,
                         before |-> IF d \in DOMAIN elapsed
                                    THEN elapsed[d] ELSE 0,
                         sleep |-> w]
        /\ gpc' = "loop"
        /\ gurl' = url
        /\ attempt' = 0
        /\ resps' = <<>>
        /\ glog' = <<"wait">>
        /\ slept' = 0
        /\ result' = "pending"
        /\ fc0' = failure_count[d]
        /\ UNCHANGED <<failure_count, notFetch>>

\* the request of one loop round is sent and answered with status
Request(status) ==
    /\ gpc = "loop"
    /\ attempt < MAX_RETRIES
    /\ resps' = Append(resps, status)
    /\ UNCHANGED <<gurl, fc0, last_wait, notFetch>>

\* lines 153-155
Get200 ==
    /\ Request(200)
    /\ failure_count' = record_success(failure_count, get_domain(gurl))
    /\ result' = "Response"
    /\ gpc' = "done"
    /\ glog' = Append(glog, "req")
    /\ UNCHANGED <<elapsed, attempt, slept>>

\* (a 429 counted as a failure of the domain, like a network exception)
Get429_Counted ==
    /\ Request(429)
    /\ failure_count[get_domain(gurl)] < MaxFailures
    /\ failure_count' = record_failure(failure_count, get_domain(gurl))
    /\ elapsed' = later(elapsed, backoff(attempt))
    /\ slept' = slept + backoff(attempt)
    /\ glog' = glog \o <<"req", "sleep">>
    /\ attempt' = attempt + 1
    /\ IF LastAttempt
       THEN result' = "None" /\ gpc' = "done"
       ELSE UNCHANGED <<result, gpc>>

\* lines 156-159, and line 175 when it was the last round
Get429 ==
    /\ Request(429)
    /\ elapsed' = later(elapsed, backoff(attempt))
    /\ slept' = slept + backoff(attempt)
    /\ glog' = glog \o <<"req", "sleep">>
    /\ attempt' = attempt + 1
    /\ IF LastAttempt
       THEN result' = "None" /\ gpc' = "done"
       ELSE UNCHANGED <<result, gpc>>
    /\ UNCHANGED failure_count

\* (a 403 or 404 handled like any other status: the loop goes on)
Get403_404_Retry ==
    /\ \E s \in {403, 404} : Request(s)
    /\ glog' = Append(glog, "req")
    /\ attempt' = attempt + 1
    /\ IF LastAttempt
       THEN result' = "None" /\ gpc' = "done"
       ELSE UNCHANGED <<result, gpc>>
    /\ UNCHANGED <<elapsed, slept, failure_count>>

\* lines 160-162
Get403_404 ==
    /\ \E s \in {403, 404} : Request(s)
    /\ result' = "None"
    /\ gpc' = "done"
    /\ glog' = Append(glog, "req")
    /\ UNCHANGED <<elapsed, attempt, slept, failure_count>>

\* lines 163-164, and line 175 when it was the last round
GetOther ==
    /\ \E s \in Statuses \ {200, 429, 403, 404, EXC} : Request(s)
    /\ glog' = Append(glog, "req")
    /\ attempt' = attempt + 1
    /\ IF LastAttempt
       THEN result' = "None" /\ gpc' = "done"
       ELSE UNCHANGED <<result, gpc>>
    /\ UNCHANGED <<elapsed, slept, failure_count>>

\* lines 166-173, and line 175 when it was the last round
GetException ==
    /\ Request(EXC)
    /\ failure_count[get_domain(gurl)] < MaxFailures
    /\ failure_count' = record_failure(failure_count, get_domain(gurl))
    /\ attempt' = attempt + 1
    /\ IF attempt < MAX_RETRIES - 1
       THEN /\ elapsed' = later(elapsed, backoff(attempt))
            /\ slept' = slept + backoff(attempt)
            /\ glog' = glog \o <<"req", "sleep">>
            /\ UNCHANGED <<result, gpc>>
       ELSE /\ glog' = Append(glog, "req")
            /\ result' = "None"
            /\ gpc' = "done"
            /\ UNCHANGED <<elapsed, slept>>

\* line 151 raises an exception that is no requests.RequestException: the
\* except clause of line 166 does not match and the exception leaves get
GetRaise ==
    /\ gpc = "loop"
    /\ attempt < MAX_RETRIES
    /\ result' = "Raised"
    /\ gpc' = "done"
    /\ glog' = Append(glog, "req")
    /\ UNCHANGED <<elapsed, failure_count, gurl, attempt, resps, slept, fc0,
                   last_wait, notFetch>>

\* line 140 with a malformed url: get_domain (line 91) raises ValueError
\* inside wait, before the try of line 150; the call is over at once
GetStartRaises(url) ==
    /\ gpc = "idle"
    /\ url \in MalformedUrls
    /\ gurl' = url
    /\ result' = "Raised"
    /\ UNCHANGED <<elapsed, failure_count, gpc, attempt, resps, glog, slept,
                   fc0, last_wait, notFetch>>

\* get has returned; its caller goes on
GetReturn ==
    /\ gpc = "done"
    /\ gpc' = "idle"
    /\ attempt' = 0
    /\ resps' = <<>>
    /\ glog' = <<>>
    /\ slept' = 0
    /\ result' = "pending"
    /\ fc0' = 0
    /\ last_wait' = NoWait
    /\ UNCHANGED <<elapsed, failure_count, gurl, notFetch>>

\* a second passing between two get calls
Tick ==
    /\ gpc = "idle"
    /\ elapsed' = later(elapsed, 1)
    /\ elapsed' # elapsed
    /\ UNCHANGED <<failure_count, gpc, gurl, attempt, resps, glog, slept,
                   result, fc0, last_wait, notFetch>>

----------------------------------------------------------------------------
(* Merge/dedup of get_events_from_all_sources and                          *)
(* get_locations_from_all_sources.  A string is the sequence of its       *)
(* characters.                                                             *)

\* the 200 of lines 232 and 888
NAME_STORED == 200

\* the 30 of lines 1296 and 1353
NAME_PREFIX == 30

\* the 20 of line 1353
ADDRESS_PREFIX == 20

\* the python slice s[:n]
Take(s, n) == SubSeq(s, 1, Min(Len(s), n))

Rep(ch, n) == [i \in 1..n |-> ch]

SeqsUpTo(S, n) == UNION {[1..k -> S] : k \in 0..n}

\* two names that differ after their first 30 characters, and short ones
Names == {Rep("k", NAME_PREFIX) \o <<"a">>, Rep("k", NAME_PREFIX) \o <<"b">>,
          <<"z">>, <<"z", "_">>}

Dates == {<<"2", "0", "2", "5", "-", "0", "1", "-", "0", "1">>,
          <<"2", "0", "2", "5", "-", "0", "1", "-", "0", "2">>}

\* two addresses that differ after their first 20 characters, and short ones
AddressTexts == {Rep("s", ADDRESS_PREFIX) \o <<"1">>,
                 Rep("s", ADDRESS_PREFIX) \o <<"2">>, <<"q">>, <<"_", "q">>}

Descriptions == {<<>>, <<"x">>, <<"x", "y">>}

EventRecords == [name : Names \ {<<"z", "_">>}, date : Dates,
                 description : Descriptions]

LocationRecords == [name : {<<"z">>, <<"z", "_">>}, address : AddressTexts,
                    description : Descriptions \ {<<>>}]

\* line 1296: f"{ev['name'][:30]}_{ev['date']}"
event_key(ev) == Take(ev.name, NAME_PREFIX) \o <<"_">> \o ev.date

\* line 1353: f"{loc['name'][:30]}_{loc.get('address', '')[:20]}"
location_key(loc) ==
    Take(loc.name, NAME_PREFIX) \o <<"_">> \o Take(loc.address, ADDRESS_PREFIX)

key_of(kind, r) == IF kind = "events" THEN event_key(r) ELSE location_key(r)

\* (a record as long as the kept one replaces it)
dedup_step_LastWins(kind, d, r) ==
    LET hits == {i \in 1..Len(d) : key_of(kind, d[i]) = key_of(kind, r)}
    IN  IF hits = {} THEN Append(d, r)
        ELSE LET i == CHOOSE j \in hits : TRUE
             IN  IF Len(r.description) >= Len(d[i].description)
                 THEN [d EXCEPT ![i] = r] ELSE d

\* lines 1297-1300 and 1354-1357, one round of the loop; the dict, which
\* keeps the order its keys were inserted in, is the sequence d of its values
dedup_step(kind, d, r) ==
    LET hits == {i \in 1..Len(d) : key_of(kind, d[i]) = key_of(kind, r)}
    IN  IF hits = {} THEN Append(d, r)
        ELSE LET i == CHOOSE j \in hits : TRUE
             IN  IF Len(r.description) > Len(d[i].description)
                 THEN [d EXCEPT ![i] = r] ELSE d

RECURSIVE dedup(_, _)
\* lines 1294-1301 and 1351-1358: the loop, then list(dedup.values())
dedup(kind, all) ==
    IF all = <<>> THEN <<>>
    ELSE dedup_step(kind, dedup(kind, SubSeq(all, 1, Len(all) - 1)),
                    all[Len(all)])

----------------------------------------------------------------------------
(* SourceQualityTracker *)

\* the configured sources, as crawl_source and get_locations_from_all_sources
\* get them: (type, url)
\* an html entry of the config that is a dict without the "url" key
BadEntry == <<"html", "">>

EventSources == {<<"rss", "http://a/feed">>, <<"html", "http://a/1">>,
                 <<"ical", "http://b/cal">>, BadEntry}

LocationSources == {<<"locations", "http://b/1">>}

Sources == EventSources \cup LocationSources

SourceUrls == {src[2] : src \in Sources}

\* line 270
NewEntry == [attempts |-> 0, successes |-> 0, total_events |-> 0,
             last_success |-> "None"]

\* (attempts counts the failed calls only)
record_FailuresOnly(st, url, success, events_found) ==
    LET base == IF url \in DOMAIN st THEN st ELSE (url :> NewEntry) @@ st
        e == base[url]
    IN  [base EXCEPT ![url] =
            [attempts |-> IF success THEN e.attempts ELSE e.attempts + 1,
             successes |-> IF success THEN e.successes + 1 ELSE e.successes,
             total_events |-> IF success THEN e.total_events + events_found
                              ELSE e.total_events,
             last_success |-> IF success THEN "now_iso" ELSE e.last_success]]

\* lines 268-276
record(st, url, success, events_found) ==
    LET base == IF url \in DOMAIN st THEN st ELSE (url :> NewEntry) @@ st
        e == base[url]
    IN  [base EXCEPT ![url] =
            [attempts |-> e.attempts + 1,
             successes |-> IF success THEN e.successes + 1 ELSE e.successes,
             total_events |-> IF success THEN e.total_events + events_found
                              ELSE e.total_events,
             last_success |-> IF success THEN "now_iso" ELSE e.last_success]]

\* the score as the fraction <<numerator, denominator>>; 0.5 is <<1, 2>>
get_quality_score(st, url) ==
    IF url \notin DOMAIN st \/ st[url].attempts = 0 THEN <<1, 2>>
    ELSE <<st[url].successes, st[url].attempts>>

\* p < q for fractions with positive denominators
Less(p, q) == p[1] * q[2] < q[1] * p[2]

\* (a trial window of more than 10 attempts)
should_skip_Strict(st, url) ==
    IF url \notin DOMAIN st THEN FALSE
    ELSE st[url].attempts > 10 /\ Less(get_quality_score(st, url), <<2, 10>>)

should_skip(st, url) ==
    IF url \notin DOMAIN st THEN FALSE
    ELSE st[url].attempts >= 10 /\ Less(get_quality_score(st, url), <<2, 10>>)

TotalAttempts(st) ==
    LET RECURSIVE Sum(_)
        Sum(U) == IF U = {} THEN 0
                  ELSE LET u == CHOOSE x \in U : TRUE
                       IN  st[u].attempts + Sum(U \ {u})
    IN  Sum(DOMAIN st)

----------------------------------------------------------------------------
(* The harvest of the configured sources *)

Digits == <<"1", "2", "3", "4", "5", "6", "7", "8", "9">>

\* the i-th record a crawl of src returns: the feed and the page announce
\* the same events under names that differ after 30 characters
RecordOf(src, i) ==
    IF src[1] = "locations"
    THEN [name |-> <<"z">>, address |-> <<"q", Digits[i]>>,
          description |-> <<"x">>, source |-> src[2]]
    ELSE [name |-> CASE src[1] = "rss" -> Rep("k", NAME_PREFIX) \o <<"a">>
                     [] src[1] = "html" -> Rep("k", NAME_PREFIX) \o <<"b">>
                     [] OTHER -> <<"z">>,
          date |-> <<"2", "0", "2", "5", "-", "0", "1", "-", "0", Digits[i]>>,
          description |-> <<"x">>, source |-> src[2]]

Records(src, n) == [i \in 1..n |-> RecordOf(src, i)]

\* lines 1263-1278 and 1322-1326: a new tracker loads STATS_FILE
StartEvents ==
    /\ phase = "idle"
    /\ phase' = "events"
    /\ stats' = stats_file
    /\ todo' = EventSources
    /\ returned' = <<>>
    /\ skipped' = {}
    /\ fetched' = <<>>
    /\ UNCHANGED <<stats_file, notQuality>>

StartLocations ==
    /\ phase = "idle"
    /\ phase' = "locations"
    /\ stats' = stats_file
    /\ todo' = LocationSources
    /\ returned' = <<>>
    /\ skipped' = {}
    /\ fetched' = <<>>
    /\ UNCHANGED <<stats_file, notQuality>>

\* the call that sends the request of a source: harvest_html line 932,
\* harvest_locations line 693 and harvest_ical line 1155 are handed the
\* session of lines 1263 and 1322; harvest_rss line 1107 gives the url to
\* feedparser
fetch_of(src) ==
    IF src[1] = "rss" THEN "feedparser.parse" ELSE "SessionManager.get"

Fetched(src) == fetched' = (src :> fetch_of(src)) @@ fetched

Crawled(src, n) ==
    /\ todo' = todo \ {src}
    /\ returned' = (src :> n) @@ returned
    /\ UNCHANGED <<stats_file, phase, notQuality>>

\* (a skip that is counted as a failed attempt)
HarvestSkip_Recorded(src) ==
    /\ src \in todo
    /\ src[1] \in {"html", "locations"}
    /\ src # BadEntry
    /\ should_skip(stats, src[2])
    /\ TotalAttempts(stats) < MaxAttempts
    /\ Crawled(src, 0)
    /\ skipped' = skipped \cup {src}
    /\ fetched' = (src :> "none") @@ fetched
    /\ stats' = record(stats, src[2], FALSE, 0)

\* harvest_html and harvest_locations, lines 925-927 and 686-688
HarvestSkip(src) ==
    /\ src \in todo
    /\ src[1] \in {"html", "locations"}
    /\ src # BadEntry
    /\ should_skip(stats, src[2])
    /\ Crawled(src, 0)
    /\ skipped' = skipped \cup {src}
    /\ fetched' = (src :> "none") @@ fetched
    /\ UNCHANGED stats

Harvest(src) ==
    /\ src \in todo
    /\ src[1] \in {"html", "locations"}
    /\ src # BadEntry
    /\ ~should_skip(stats, src[2])
    /\ TotalAttempts(stats) < MaxAttempts
    /\ Fetched(src)
    /\ UNCHANGED skipped

\* lines 933-936 and 694-697: the fetch returned nothing
HarvestNoResponse(src) ==
    /\ Harvest(src)
    /\ stats' = record(stats, src[2], FALSE, 0)
    /\ Crawled(src, 0)

\* lines 951-955 and 722-728: records found in the structured data
HarvestJsonLd(src, n) ==
    /\ Harvest(src)
    /\ n >= 1
    /\ stats' = record(stats, src[2], TRUE, n)
    /\ Crawled(src, n)

\* (a fallback that reports success whatever it found)
HarvestFallback_AlwaysSuccess(src, n) ==
    /\ Harvest(src)
    /\ stats' = record(stats, src[2], TRUE, n)
    /\ Crawled(src, n)

\* lines 1084-1089 and 846-851: the result of the selector fallback
HarvestFallback(src, n) ==
    /\ Harvest(src)
    /\ stats' = record(stats, src[2], n > 0, n)
    /\ Crawled(src, n)

\* lines 1091-1095 and 853-857
HarvestException(src) ==
    /\ Harvest(src)
    /\ stats' = record(stats, src[2], FALSE, 0)
    /\ Crawled(src, 0)

\* harvest_rss, lines 1101-1140: n records, or [] after an exception
HarvestRss(src, n) ==
    /\ src \in todo
    /\ src[1] = "rss"
    /\ Fetched(src)
    /\ Crawled(src, n)
    /\ UNCHANGED <<stats, skipped>>

\* harvest_ical, lines 1146-1198: n records, or [] when the fetch returned
\* nothing or after an exception
HarvestIcal(src, n) ==
    /\ src \in todo
    /\ src[1] = "ical"
    /\ Fetched(src)
    /\ Crawled(src, n)
    /\ UNCHANGED <<stats, skipped>>

\* (the exception of a worker leaves get_events_from_all_sources: the
\* sources not crawled yet are dropped and nothing is saved)
WorkerError_Abort(src) ==
    /\ src \in todo
    /\ src = BadEntry
    /\ phase' = "idle"
    /\ returned' = <<>>
    /\ skipped' = {}
    /\ fetched' = <<>>
    /\ UNCHANGED <<stats, stats_file, todo, notQuality>>

\* crawl_source, lines 1222 and 1244-1246, and lines 1286-1288: the html
\* entry without a url raises KeyError, the worker returns ("", [])
WorkerError(src) ==
    /\ src \in todo
    /\ src = BadEntry
    /\ todo' = todo \ {src}
    /\ UNCHANGED <<stats, stats_file, phase, returned, skipped, fetched,
                   notQuality>>

\* lines 1303 and 1359: quality_tracker.save_stats(), the function returns
Finish ==
    /\ phase \in {"events", "locations"}
    /\ todo = {}
    /\ stats_file' = stats
    /\ phase' = "idle"
    /\ returned' = <<>>
    /\ skipped' = {}
    /\ fetched' = <<>>
    /\ UNCHANGED <<stats, todo, notQuality>>

\* lines 1303 and 1359: save_stats (lines 264-266) raises, the exception
\* leaves the function
FinishSaveFails ==
    /\ phase \in {"events", "locations"}
    /\ todo = {}
    /\ phase' = "idle"
    /\ returned' = <<>>
    /\ skipped' = {}
    /\ fetched' = <<>>
    /\ UNCHANGED <<stats, stats_file, todo, notQuality>>

----------------------------------------------------------------------------
(* Geocoder *)

\* the 1.0 of lines 332-333: one request per second
GeoSpacing == 1

Addresses == {"Zoo 1", "zoo 1", "Park 2"}

\* "Muenchen" stands for the default city of geocode
Cities == {"Muenchen"}

\* the (lat, lon) a lookup can report
GeoResults == {<<48, 11>>, <<52, 13>>}

\* str.lower(), on the strings of the model
lower(str) ==
    CASE str = "Zoo 1" -> "zoo 1"
      [] str = "zoo 1" -> "zoo 1"
      [] str = "Park 2" -> "park 2"
      [] str = "Muenchen" -> "muenchen"

\* lines 320-321: f"{address}, {city}, Germany".lower().strip()
cache_key(address, city) == <<lower(address), lower(city), "germany">>

CacheKeys == {cache_key(a, c) : a \in Addresses, c \in Cities}

\* (a lookup that takes a cached None for a miss)
cache_hit_NoTombstone(c, key) == key \in DOMAIN c /\ c[key] # None

\* line 324
cache_hit(c, key) == key \in DOMAIN c

\* s seconds passing, for a time counted up to GeoSpacing
geo_later(t, s) == Min(t + s, GeoSpacing)

\* lines 331-333: the seconds geocode sleeps before its request
geo_sleep == IF geo_elapsed < GeoSpacing THEN GeoSpacing - geo_elapsed ELSE 0

Called(key, call) ==
    /\ Len(calls[key]) < MaxCalls
    /\ calls' = [calls EXCEPT ![key] = Append(@, call)]
    /\ UNCHANGED <<notGeo>>

\* lines 324-328: the key is cached, no request is sent
GeocodeCached(address, city) ==
    LET key == cache_key(address, city)
    IN  /\ cache_hit(cache, key)
        /\ Called(key, [addr |-> address, outcome |-> "cached", saved |-> TRUE,
                        net |-> 0, ret |-> cache[key]])
        /\ UNCHANGED <<cache, cache_file, geo_elapsed, since_sent, sent_any,
                       gaps>>

\* lines 331-347: the sleep, then the request is sent; it takes dur seconds
Lookup(address, city, dur) ==
    /\ ~cache_hit(cache, cache_key(address, city))
    /\ gaps' = IF sent_any THEN <<geo_later(since_sent, geo_sleep)>> ELSE gaps
    /\ sent_any' = TRUE
    /\ since_sent' = geo_later(0, dur)

\* (a failed request that stores a tombstone like a lookup without result)
GeocodeError_Tombstone(address, city, dur) ==
    LET key == cache_key(address, city)
    IN  /\ Lookup(address, city, dur)
        /\ geo_elapsed' = geo_later(geo_elapsed, geo_sleep + dur)
        /\ cache' = (key :> None) @@ cache
        /\ cache_file' = cache'
        /\ Called(key, [addr |-> address, outcome |-> "error", saved |-> TRUE,
                        net |-> 1, ret |-> None])

\* lines 343-347 raise, lines 365-367: last_request_time is not written
GeocodeError(address, city, dur) ==
    LET key == cache_key(address, city)
    IN  /\ Lookup(address, city, dur)
        /\ geo_elapsed' = geo_later(geo_elapsed, geo_sleep + dur)
        /\ Called(key, [addr |-> address, outcome |-> "error", saved |-> FALSE,
                        net |-> 1, ret |-> None])
        /\ UNCHANGED <<cache, cache_file>>

\* lines 348-358: coordinates found; save_cache raising ends in lines 365-367
GeocodeFound(address, city, dur, coords, save_ok) ==
    LET key == cache_key(address, city)
    IN  /\ Lookup(address, city, dur)
        /\ geo_elapsed' = 0
        /\ cache' = (key :> coords) @@ cache
        /\ cache_file' = IF save_ok THEN cache' ELSE cache_file
        /\ Called(key, [addr |-> address, outcome |-> "found",
                        saved |-> save_ok, net |-> 1,
                        ret |-> IF save_ok THEN coords ELSE None])

\* lines 348-354 raise on a 200 answer that is no JSON list of results with
\* lat and lon, lines 365-367
GeocodeMalformed(address, city, dur) ==
    LET key == cache_key(address, city)
    IN  /\ Lookup(address, city, dur)
        /\ geo_elapsed' = 0
        /\ Called(key, [addr |-> address, outcome |-> "malformed",
                        saved |-> FALSE, net |-> 1, ret |-> None])
        /\ UNCHANGED <<cache, cache_file>>

\* lines 348-352 and 360-363: a 200 answer with an empty list ("empty") or
\* another status ("non200")
GeocodeNotFound(address, city, dur, status, save_ok) ==
    LET key == cache_key(address, city)
    IN  /\ Lookup(address, city, dur)
        /\ geo_elapsed' = 0
        /\ cache' = (key :> None) @@ cache
        /\ cache_file' = IF save_ok THEN cache' ELSE cache_file
        /\ Called(key, [addr |-> address, outcome |-> status,
                        saved |-> save_ok, net |-> 1, ret |-> None])

\* the geo coordinates a location's structured data can embed (lines
\* 879-883), None for a record without them
Embedded == {None, <<48, 11>>}

\* lines 898-900, 722-725 and 665-669: the record parse_json_ld_location
\* built with the embedded coordinates geo goes through enrich_location,
\* which calls geocode(address, city) for it and writes the coordinates
\* that call returned, if any, over lat and lon
enrich_location(address, city, geo) ==
    LET key == cache_key(address, city)
        call == calls'[key][Len(calls'[key])]
    IN  emitted' = [embedded |-> geo, net |-> call.net,
                    outcome |-> call.outcome,
                    lat_lon |-> IF call.ret # None THEN call.ret ELSE geo]

\* lines 301-305, from main line 1392: a new Geocoder loads the cache file
NewGeocoder ==
    /\ cache' = cache_file
    /\ geo_elapsed' = GeoSpacing
    /\ sent_any' = FALSE
    /\ since_sent' = 0
    /\ gaps' = <<>>
    /\ calls' = [k \in CacheKeys |-> <<>>]
    /\ emitted' = None
    /\ UNCHANGED <<cache_file, notGeo>>

\* a second passing between two geocode calls
GeoTick ==
    /\ geo_elapsed' = geo_later(geo_elapsed, 1)
    /\ since_sent' = geo_later(since_sent, 1)
    /\ <<geo_elapsed', since_sent'>> # <<geo_elapsed, since_sent>>
    /\ UNCHANGED <<cache, cache_file, sent_any, gaps, calls, emitted,
                   notGeo>>

----------------------------------------------------------------------------
(* The merge/dedup as it is called *)

\* lines 1277 and 1320: a new call starts with an empty list
MergeStart(kind) ==
    /\ m_kind' = kind
    /\ m_in' = <<>>
    /\ m_out' = None
    /\ (m_in # <<>> \/ m_kind # kind)
    /\ UNCHANGED notMerge

\* lines 1288 and 1336: a record of a crawled source joins the list
MergeCollect(r) ==
    /\ m_out = None
    /\ Len(m_in) < MaxRecords
    /\ m_in' = Append(m_in, r)
    /\ UNCHANGED <<m_kind, m_out, notMerge>>

\* lines 1293-1301 and 1350-1358
MergeDedup ==
    /\ m_out = None
    /\ m_out' = dedup(m_kind, m_in)
    /\ UNCHANGED <<m_kind, m_in, notMerge>>

----------------------------------------------------------------------------
(* main.  The clock fields of the output (lastCrawled,                     *)
(* crawlDurationSeconds) are left out, and the geocoding of the location  *)
(* records is the matter of the Geocoder actions above.                    *)

\* the characters of the model in the order of their code points
Alphabet == <<"-", "0", "1", "2", "3", "4", "5", "6", "7", "8", "9", "_",
              "a", "b", "k", "m", "q", "s", "x", "y", "z">>

Ord(ch) == CHOOSE i \in 1..Len(Alphabet) : Alphabet[i] = ch

RECURSIVE LessStr(_, _)
\* s < t for python strings
LessStr(s, t) ==
    IF t = <<>> THEN FALSE
    ELSE IF s = <<>> THEN TRUE
    ELSE IF s[1] = t[1] THEN LessStr(Tail(s), Tail(t))
    ELSE Ord(s[1]) < Ord(t[1])

\* lines 1405 and 1413: the sort keys (e["date"], e["name"]) and l["name"]
sort_less(kind, a, b) ==
    IF kind = "events"
    THEN LessStr(a.date, b.date) \/ (a.date = b.date /\ LessStr(a.name, b.name))
    ELSE LessStr(a.name, b.name)

\* r put into the sorted list srt behind the records not greater than it
Insert(kind, srt, r) ==
    LET after == {i \in 1..Len(srt) : sort_less(kind, r, srt[i])}
        pos == IF after = {} THEN Len(srt) + 1
               ELSE CHOOSE i \in after : \A j \in after : i <= j
    IN  SubSeq(srt, 1, pos - 1) \o <<r>> \o SubSeq(srt, pos, Len(srt))

RECURSIVE sorted(_, _)
\* the stable sorted() of python, lines 1405 and 1413
sorted(kind, l) ==
    IF l = <<>> THEN <<>>
    ELSE Insert(kind, sorted(kind, SubSeq(l, 1, Len(l) - 1)), l[Len(l)])

\* what manual_events.json can hold
ManualEvent == [name |-> <<"m">>,
                date |-> <<"2", "0", "2", "5", "-", "0", "1", "-", "0", "1">>,
                description |-> <<"x">>, source |-> "manual"]

ManualLists == {<<>>, <<ManualEvent>>}

\* line 1400: data when OUTPUT_FILE cannot be read
NoData == [k \in {"locations", "events"} |-> <<>>]

\* lines 1396-1400
load_data(file) == IF file = None THEN NoData ELSE file

\* data[k] = v
Put(data, k, v) == (k :> v) @@ data

\* data.get(k, [])
GetList(data, k) == IF k \in DOMAIN data THEN data[k] ELSE <<>>

\* (the events of the run are written whether or not there are any)
update_events_Overwrite(data, events) ==
    Put(Put(data, "events", sorted("events", events)),
        "totalEvents", Len(events))

\* lines 1403-1409
update_events(data, events) ==
    IF events # <<>>
    THEN Put(Put(data, "events", sorted("events", events)),
             "totalEvents", Len(events))
    ELSE data

\* lines 1411-1417
update_locations(data, locations) ==
    IF locations # <<>>
    THEN Put(Put(data, "locations", sorted("locations", locations)),
             "totalLocations", Len(locations))
    ELSE data

\* lines 1420-1428
with_metadata(data, events) ==
    Put(data, "metadata",
        [totalLocations |-> Len(GetList(data, "locations")),
         totalEvents |-> Len(events)])

\* lines 1286-1288 and 1335-1336: the records of src join the list
extend(src, n) ==
    /\ all_events' = all_events \o Records(src, n)
    /\ UNCHANGED <<mpc, runs, manual_events, main_events, output_file, wrote>>

\* lines 1374-1383 and 1263-1278: main loads the manual events and calls
\* get_events_from_all_sources
MainStart(manual) ==
    /\ mpc = "none"
    /\ runs < MaxRuns
    /\ runs' = runs + 1
    /\ StartEvents
    /\ mpc' = "events"
    /\ manual_events' = manual
    /\ all_events' = <<>>
    /\ main_events' = <<>>
    /\ wrote' = None
    /\ UNCHANGED output_file

\* lines 1293-1309 and 1386: get_events_from_all_sources returns
MainCombine ==
    /\ mpc = "events"
    /\ Finish
    /\ main_events' = manual_events \o dedup("events", all_events)
    /\ mpc' = "geocoder"
    /\ UNCHANGED <<runs, manual_events, all_events, output_file, wrote>>

\* lines 1392-1393 and 1314-1328: main calls get_locations_from_all_sources
MainLocations ==
    /\ mpc = "geocoder"
    /\ StartLocations
    /\ mpc' = "locations"
    /\ all_events' = <<>>
    /\ UNCHANGED <<runs, manual_events, main_events, output_file, wrote>>

\* lines 1350-1365 and 1395-1432: get_locations_from_all_sources returns,
\* main reads OUTPUT_FILE, updates the data and writes the file
MainWrite ==
    /\ mpc = "locations"
    /\ Finish
    /\ LET crawled_locations == dedup("locations", all_events)
           data == load_data(output_file)
           upd == update_locations(update_events(data, main_events),
                                   crawled_locations)
       IN  /\ output_file' = with_metadata(upd, main_events)
           /\ wrote' = [before |-> data, manual |-> manual_events,
                         events |-> main_events,
                         locations |-> crawled_locations]
    /\ mpc' = "none"
    /\ all_events' = <<>>
    /\ main_events' = <<>>
    /\ manual_events' = <<>>
    /\ UNCHANGED runs

\* lines 1303 and 1359 raise: the exception leaves main, nothing is written
MainCrash ==
    /\ mpc \in {"events", "locations"}
    /\ FinishSaveFails
    /\ mpc' = "none"
    /\ all_events' = <<>>
    /\ main_events' = <<>>
    /\ manual_events' = <<>>
    /\ UNCHANGED <<runs, output_file, wrote>>

----------------------------------------------------------------------------
(* The worker threads of get_events_from_all_sources (lines 1281-1282)     *)
(* inside record_failure, record_success and record.  All workers share   *)
(* one SessionManager and one SourceQualityTracker; nothing is locked, and *)
(* a thread switch can fall between the read and the write of x += 1.      *)

Workers == 1..NWorkers

\* the domain and the url the workers are busy with
WDomain == "a"

WUrl == "http://a/1"

\* events_found of the record calls
WFound == 1

Goto(w, pc) == wpc' = [wpc EXCEPT ![w] = pc]

Returned(kind) == done' = [done EXCEPT ![kind] = @ + 1]

\* a worker calls record_failure (line 115), record_success (line 110) or
\* record (line 268)
WorkerCall(w, pc, success) ==
    /\ wpc[w] = "idle"
    /\ started < MaxOps
    /\ started' = started + 1
    /\ Goto(w, pc)
    /\ wsuccess' = [wsuccess EXCEPT ![w] = success]
    /\ UNCHANGED <<failure_count, stats, wtmp, wdict, dict_id, done,
                   notWorkers>>

\* line 117, the read of self.failure_count[domain] += 1
FailureRead(w) ==
    /\ wpc[w] = "rf_read"
    /\ wtmp' = [wtmp EXCEPT ![w] = failure_count[WDomain]]
    /\ Goto(w, "rf_write")
    /\ UNCHANGED <<failure_count, stats, wdict, wsuccess, dict_id, started,
                   done, notWorkers>>

\* line 117, the write of self.failure_count[domain] += 1
FailureWrite(w) ==
    /\ wpc[w] = "rf_write"
    /\ failure_count' = [failure_count EXCEPT ![WDomain] = wtmp[w] + 1]
    /\ Goto(w, "idle")
    /\ Returned("failure")
    /\ UNCHANGED <<stats, wtmp, wdict, wsuccess, dict_id, started,
                   notWorkers>>

\* line 112: if self.failure_count[domain] > 0
SuccessCheck(w) ==
    /\ wpc[w] = "rs_check"
    /\ IF failure_count[WDomain] > 0
       THEN Goto(w, "rs_read") /\ UNCHANGED done
       ELSE Goto(w, "idle") /\ Returned("success")
    /\ UNCHANGED <<failure_count, stats, wtmp, wdict, wsuccess, dict_id,
                   started, notWorkers>>

\* line 113, the read of self.failure_count[domain] - 1
SuccessRead(w) ==
    /\ wpc[w] = "rs_read"
    /\ wtmp' = [wtmp EXCEPT ![w] = failure_count[WDomain]]
    /\ Goto(w, "rs_write")
    /\ UNCHANGED <<failure_count, stats, wdict, wsuccess, dict_id, started,
                   done, notWorkers>>

\* line 113, the write of max(0, ...)
SuccessWrite(w) ==
    /\ wpc[w] = "rs_write"
    /\ failure_count' = [failure_count EXCEPT ![WDomain] = Max(0, wtmp[w] - 1)]
    /\ Goto(w, "idle")
    /\ Returned("success")
    /\ UNCHANGED <<stats, wtmp, wdict, wsuccess, dict_id, started,
                   notWorkers>>

\* line 269: if url not in self.stats
RecordCheck(w) ==
    /\ wpc[w] = "r_check"
    /\ Goto(w, IF WUrl \in DOMAIN stats THEN "r_read_a" ELSE "r_new")
    /\ UNCHANGED <<failure_count, stats, wtmp, wdict, wsuccess, dict_id,
                   started, done, notWorkers>>

\* line 270: a new dict object becomes self.stats[url]
RecordNew(w) ==
    /\ wpc[w] = "r_new"
    /\ stats' = (WUrl :> NewEntry) @@ stats
    /\ dict_id' = dict_id + 1
    /\ Goto(w, "r_read_a")
    /\ UNCHANGED <<failure_count, wtmp, wdict, wsuccess, started, done,
                   notWorkers>>

\* the read of self.stats[url][field] += ...: the worker gets the dict
\* object that is stats[url] now, and the value of the field
FieldRead(w, pc, field, next) ==
    /\ wpc[w] = pc
    /\ wdict' = [wdict EXCEPT ![w] = dict_id]
    /\ wtmp' = [wtmp EXCEPT ![w] = stats[WUrl][field]]
    /\ Goto(w, next)
    /\ UNCHANGED <<failure_count, stats, wsuccess, dict_id, started, done,
                   notWorkers>>

\* the write of self.stats[url][field] += n, into the dict object the
\* worker holds: it shows in stats only if that object is still stats[url]
FieldWrite(w, pc, field, n, next) ==
    /\ wpc[w] = pc
    /\ stats' = IF wdict[w] = dict_id
                THEN [stats EXCEPT ![WUrl][field] = wtmp[w] + n]
                ELSE stats
    /\ Goto(w, next)
    /\ IF next = "idle" THEN Returned("record_failed") ELSE UNCHANGED done
    /\ UNCHANGED <<failure_count, wtmp, wdict, wsuccess, dict_id, started,
                   notWorkers>>

\* line 272
AttemptsRead(w) == FieldRead(w, "r_read_a", "attempts", "r_write_a")

\* lines 272-273
AttemptsWrite(w) ==
    FieldWrite(w, "r_write_a", "attempts", 1,
               IF wsuccess[w] THEN "r_read_s" ELSE "idle")

\* line 274
SuccessesRead(w) == FieldRead(w, "r_read_s", "successes", "r_write_s")

SuccessesWrite(w) == FieldWrite(w, "r_write_s", "successes", 1, "r_read_t")

\* line 275
TotalRead(w) == FieldRead(w, "r_read_t", "total_events", "r_write_t")

TotalWrite(w) == FieldWrite(w, "r_write_t", "total_events", WFound, "r_last")

\* line 276, the function returns
LastSuccess(w) ==
    /\ wpc[w] = "r_last"
    /\ stats' = [stats EXCEPT ![WUrl].last_success = "now_iso"]
    /\ Goto(w, "idle")
    /\ Returned("record_ok")
    /\ UNCHANGED <<failure_count, wtmp, wdict, wsuccess, dict_id, started,
                   notWorkers>>

----------------------------------------------------------------------------
(* The worker threads inside SmartRateLimiter.wait (lines 93-108), called  *)
(* from SessionManager.get with the session all workers share.  A worker  *)
(* that sleeps has released the interpreter: the others run.              *)

\* lines 95-106: the worker computes the limit and the time left of it and
\* starts to sleep that long
WaitCall(w) ==
    /\ wpc[w] = "idle"
    /\ started < MaxOps
    /\ started' = started + 1
    /\ wtmp' = [wtmp EXCEPT ![w] = wait_time(get_domain(WUrl))]
    /\ Goto(w, "w_sleep")
    /\ UNCHANGED <<elapsed, wait_gap, notWait>>

\* a second passes: for last_request and for every sleeping worker
WaitTick ==
    /\ elapsed' = later(elapsed, 1)
    /\ wtmp' = [w \in Workers |->
                  IF wpc[w] = "w_sleep" THEN Max(0, wtmp[w] - 1) ELSE wtmp[w]]
    /\ <<elapsed', wtmp'>> # <<elapsed, wtmp>>
    /\ UNCHANGED <<wpc, started, wait_gap, notWait>>

\* line 108 after the sleep: last_request[domain] = time.time(), wait
\* returns
WaitReturn(w) ==
    LET d == get_domain(WUrl)
    IN  /\ wpc[w] = "w_sleep"
        /\ wtmp[w] = 0
        /\ wait_gap' = IF d \in DOMAIN elapsed THEN <<elapsed[d]>>
                        ELSE wait_gap
        /\ elapsed' = (d :> 0) @@ elapsed
        /\ Goto(w, "idle")
        /\ UNCHANGED <<wtmp, started, notWait>>

----------------------------------------------------------------------------
(* The threads of a run of main and the geocoder.  The events are         *)
(* harvested by the threads of the pool (lines 1281-1282), the locations  *)
(* by the thread of main itself in the loop of lines 1331-1348.           *)

MainThread == 0

Threads == {MainThread} \cup Workers

\* (harvest_html is handed a geocoder as well)
geocode_callers_Pool == Threads

\* the threads that hold the geocoder: it is made at line 1392 and goes to
\* get_locations_from_all_sources (1393), harvest_locations (1343) and
\* enrich_location (725, 839); crawl_source (1215-1243) has none
geocode_callers == {MainThread}

\* lines 1281-1282 and 1215: a thread of the pool takes a source, whose
\* harvest finds n records
UnitCrawl(t, src, n) ==
    /\ u_phase = "events"
    /\ t \in Workers
    /\ u_at[t] = "idle"
    /\ src \in u_todo
    /\ u_todo' = u_todo \ {src}
    /\ u_at' = [u_at EXCEPT ![t] = "crawl"]
    /\ u_left' = [u_left EXCEPT ![t] = n]
    /\ UNCHANGED <<u_phase, notUnits>>

\* lines 1331-1344: main calls harvest_locations for the next source
UnitHarvest(src, n) ==
    /\ u_phase = "locations"
    /\ u_at[MainThread] = "idle"
    /\ src \in u_todo
    /\ u_todo' = u_todo \ {src}
    /\ u_at' = [u_at EXCEPT ![MainThread] = "crawl"]
    /\ u_left' = [u_left EXCEPT ![MainThread] = n]
    /\ UNCHANGED <<u_phase, notUnits>>

\* lines 666-667: the thread calls geocoder.geocode for its next record
UnitGeocode(t) ==
    /\ t \in geocode_callers
    /\ u_at[t] \in {"crawl", "enriched"}
    /\ u_left[t] > 0
    /\ u_at' = [u_at EXCEPT ![t] = "geocode"]
    /\ UNCHANGED <<u_phase, u_todo, u_left, notUnits>>

\* geocode returns (lines 325, 326, 359, 364 or 367) and enrich_location
\* with it (lines 668-671)
UnitGeocoded(t) ==
    /\ u_at[t] = "geocode"
    /\ u_at' = [u_at EXCEPT ![t] = "enriched"]
    /\ u_left' = [u_left EXCEPT ![t] = u_left[t] - 1]
    /\ UNCHANGED <<u_phase, u_todo, notUnits>>

\* the harvest of the thread returns: a thread with the geocoder has
\* enriched all its records
UnitReturn(t) ==
    /\ u_at[t] \in {"crawl", "enriched"}
    /\ t \in geocode_callers => u_left[t] = 0
    /\ u_at' = [u_at EXCEPT ![t] = "idle"]
    /\ u_left' = [u_left EXCEPT ![t] = 0]
    /\ UNCHANGED <<u_phase, u_todo, notUnits>>

\* the with block of line 1281 ends when every thread of the pool is done;
\* lines 1386-1393 and 1325
UnitEventsDone ==
    /\ u_phase = "events"
    /\ u_todo = {}
    /\ \A t \in Workers : u_at[t] = "idle"
    /\ u_phase' = "locations"
    /\ u_todo' = LocationSources
    /\ UNCHANGED <<u_at, u_left, notUnits>>

\* line 1365: get_locations_from_all_sources returns
UnitLocationsDone ==
    /\ u_phase = "locations"
    /\ u_todo = {}
    /\ u_at[MainThread] = "idle"
    /\ u_phase' = "done"
    /\ UNCHANGED <<u_todo, u_at, u_left, notUnits>>

----------------------------------------------------------------------------
(* Text classification: map_category.  A text is the sequence of its       *)
(* characters.                                                             *)

UpperChars == <<"A", "B", "C", "D", "E", "F", "G", "H", "I", "J", "K", "L",
                "M", "N", "O", "P", "Q", "R", "S", "T", "U", "V", "W", "X",
                "Y", "Z", "Ä", "Ö", "Ü">>

LowerChars == <<"a", "b", "c", "d", "e", "f", "g", "h", "i", "j", "k", "l",
                "m", "n", "o", "p", "q", "r", "s", "t", "u", "v", "w", "x",
                "y", "z", "ä", "ö", "ü">>

\* str.lower(), character by character
lower_char(ch) ==
    IF \E i \in 1..Len(UpperChars) : UpperChars[i] = ch
    THEN LowerChars[CHOOSE i \in 1..Len(UpperChars) : UpperChars[i] = ch]
    ELSE ch

to_lower(t) == [i \in 1..Len(t) |-> lower_char(t[i])]

\* k in t, for strings
Contains(t, k) ==
    \E i \in 0..(Len(t) - Len(k)) : SubSeq(t, i + 1, i + Len(k)) = k

\* any(k in t for k in keywords)
any_in(keywords, t) == \E k \in keywords : Contains(t, k)

\* the None handed to a parameter of type str
NoneText == <<"None">>

\* (text or "")
or_empty(text) == IF text = NoneText THEN <<>> ELSE text

\* lines 461-480: the keyword lists and their categories, in order
CATEGORY_TABLE == <<
    [keywords |->
        {<<"t", "h", "e", "a", "t", "e", "r">>,
         <<"p", "u", "p", "p", "e", "n", "t", "h", "e", "a", "t", "e", "r">>,
         <<"k", "a", "s", "p", "e", "r", "l">>,
         <<"b", "ü", "h", "n", "e">>,
         <<"m", "u", "s", "i", "c", "a", "l">>},
     category |-> "theater"],
    [keywords |->
        {<<"m", "u", "s", "e", "u", "m">>,
         <<"a", "u", "s", "s", "t", "e", "l", "l", "u", "n", "g">>,
         <<"g", "a", "l", "e", "r", "i", "e">>,
         <<"k", "u", "n", "s", "t">>},
     category |-> "museum"],
    [keywords |->
        {<<"s", "p", "i", "e", "l", "p", "l", "a", "t", "z">>,
         <<"o", "u", "t", "d", "o", "o", "r">>,
         <<"p", "a", "r", "k">>,
         <<"g", "a", "r", "t", "e", "n">>,
         <<"w", "a", "n", "d", "e", "r", "n">>,
         <<"n", "a", "t", "u", "r">>,
         <<"d", "r", "a", "u", "ß", "e", "n">>},
     category |-> "outdoor"],
    [keywords |->
        {<<"i", "n", "d", "o", "o", "r">>,
         <<"h", "a", "l", "l", "e">>,
         <<"d", "r", "i", "n", "n", "e", "n">>,
         <<"s", "p", "i", "e", "l", "p", "l", "a", "t", "z", " ", "i", "n",
           "d", "o", "o", "r">>},
     category |-> "indoor"],
    [keywords |->
        {<<"w", "o", "r", "k", "s", "h", "o", "p">>,
         <<"b", "a", "s", "t", "e", "l", "n">>,
         <<"k", "r", "e", "a", "t", "i", "v">>,
         <<"m", "a", "l", "e", "n">>,
         <<"w", "e", "r", "k", "e", "n">>,
         <<"k", "u", "r", "s">>},
     category |-> "kreativ"],
    [keywords |->
        {<<"s", "c", "h", "w", "i", "m", "m", "e", "n">>,
         <<"b", "a", "d", "e", "n">>,
         <<"p", "o", "o", "l">>,
         <<"f", "r", "e", "i", "b", "a", "d">>,
         <<"h", "a", "l", "l", "e", "n", "b", "a", "d">>,
         <<"w", "a", "s", "s", "e", "r">>},
     category |-> "schwimmbad"],
    [keywords |->
        {<<"s", "p", "o", "r", "t">>,
         <<"t", "u", "r", "n", "e", "n">>,
         <<"f", "u", "ß", "b", "a", "l", "l">>,
         <<"k", "l", "e", "t", "t", "e", "r", "n">>,
         <<"b", "e", "w", "e", "g", "u", "n", "g">>,
         <<"t", "a", "n", "z">>},
     category |-> "sport"],
    [keywords |->
        {<<"m", "u", "s", "i", "k">>,
         <<"k", "o", "n", "z", "e", "r", "t">>,
         <<"s", "i", "n", "g", "e", "n">>,
         <<"i", "n", "s", "t", "r", "u", "m", "e", "n", "t">>},
     category |-> "musik"],
    [keywords |->
        {<<"k", "i", "n", "o">>,
         <<"f", "i", "l", "m">>,
         <<"v", "o", "r", "f", "ü", "h", "r", "u", "n", "g">>},
     category |-> "kino"],
    [keywords |->
        {<<"f", "e", "s", "t">>,
         <<"f", "e", "s", "t", "i", "v", "a", "l">>,
         <<"m", "a", "r", "k", "t">>,
         <<"f", "e", "i", "e", "r">>},
     category |-> "festival"]>>

\* the if statements of lines 461-480 from row i on, line 481 after the last
RECURSIVE scan_from(_, _)
scan_from(t, i) ==
    IF i > Len(CATEGORY_TABLE) THEN "event"
    ELSE IF any_in(CATEGORY_TABLE[i].keywords, t)
         THEN CATEGORY_TABLE[i].category
         ELSE scan_from(t, i + 1)

\* (the scan without the lower() of line 460)
map_category_CaseSensitive(text) == scan_from(or_empty(text), 1)

map_category(text) == scan_from(to_lower(or_empty(text)), 1)

\* words of the texts handed to map_category
Words ==
    {<<"T", "h", "e", "a", "t", "e", "r">>,
     <<"M", "u", "s", "e", "u", "m">>,
     <<"S", "p", "i", "e", "l", "p", "l", "a", "t", "z", " ", "i", "n", "d",
       "o", "o", "r">>,
     <<"H", "a", "l", "l", "e">>,
     <<"B", "A", "S", "T", "E", "L", "N">>,
     <<"P", "o", "o", "l">>,
     <<"F", "u", "ß", "b", "a", "l", "l">>,
     <<"K", "o", "n", "z", "e", "r", "t">>,
     <<"K", "i", "n", "o">>,
     <<"F", "e", "s", "t">>,
     <<"x", "y", "z">>,
     <<"B", "ü", "h", "n", "e">>}

\* name + " " + desc of lines 234, 1068, 1125 and 1182, and the texts
\* without content
Texts ==
    {NoneText, <<>>} \cup Words
    \cup {a \o <<" ">> \o b : a \in Words, b \in Words}

\* the function f was called with arg and returned ret
Applied(f, arg, ret) ==
    /\ t_op' = f
    /\ t_in' = arg
    /\ t_out' = ret
    /\ UNCHANGED notText

MapCategory(text) == Applied("map_category", text, map_category(text))

----------------------------------------------------------------------------
(* Enrichment: enrich_for_kids and enrich_location without a geocoder.     *)
(* A record is a function from its field names; an emoji is written as    *)
(* its name.                                                               *)

\* the 50 of name[:50], the 150 of base_desc[:150]
NAME_KIDS == 50

CONTENT_DESC == 150

\* item.get(k, default)
Get(item, k, default) == IF k \in DOMAIN item THEN item[k] ELSE default

\* (item.get('name', '') + ' ' + item.get('description', '')).lower()
text_of(item) ==
    to_lower(Get(item, "name", <<>>) \o <<" ">>
             \o Get(item, "description", <<>>))

\* the tags of the rows one of whose words is in text, in row order
tags_in(rows, text) ==
    LET hit == SelectSeq(rows, LAMBDA r : any_in(r.words, text))
    IN  [i \in 1..Len(hit) |-> hit[i].tag]

\* lines 493-500
KIDS_AGE_ROWS == <<
    [words |->
        {<<"b", "a", "b", "y">>,
         <<"k", "l", "e", "i", "n", "k", "i", "n", "d">>,
         <<"a", "b", " ", "1">>,
         <<"a", "b", " ", "2">>,
         <<"k", "r", "i", "p", "p", "e">>,
         <<"k", "r", "a", "b", "b", "e", "l", "g", "r", "u", "p", "p", "e">>,
         <<"0", "-", "3">>,
         <<"u", "3">>},
     tag |-> "0-3"],
    [words |->
        {<<"k", "i", "n", "d", "e", "r", "g", "a", "r", "t", "e", "n">>,
         <<"a", "b", " ", "3">>,
         <<"a", "b", " ", "4">>,
         <<"a", "b", " ", "5">>,
         <<"v", "o", "r", "s", "c", "h", "u", "l", "e">>,
         <<"k", "i", "t", "a">>,
         <<"3", "-", "6">>},
     tag |-> "3-6"],
    [words |->
        {<<"g", "r", "u", "n", "d", "s", "c", "h", "u", "l", "e">>,
         <<"a", "b", " ", "6">>,
         <<"a", "b", " ", "7">>,
         <<"a", "b", " ", "8">>,
         <<"s", "c", "h", "u", "l", "k", "i", "n", "d">>,
         <<"6", "-", "9">>,
         <<"e", "r", "s", "t", "k", "l", "ä", "s", "s", "l", "e", "r">>},
     tag |-> "6-9"],
    [words |->
        {<<"a", "b", " ", "9">>,
         <<"a", "b", " ", "1", "0">>,
         <<"a", "b", " ", "1", "1">>,
         <<"a", "b", " ", "1", "2">>,
         <<"t", "e", "e", "n", "a", "g", "e", "r">>,
         <<"j", "u", "g", "e", "n", "d">>,
         <<"9", "-", "1", "2">>},
     tag |-> "9-12"]>>

\* lines 492-508
kids_age_groups(item) ==
    LET age_groups == tags_in(KIDS_AGE_ROWS, text_of(item))
    IN  IF age_groups # <<>> THEN age_groups
        ELSE IF item["category"] \in {"theater", "museum"}
             THEN <<"3-6", "6-9">>
        ELSE IF item["category"] \in {"sport", "kreativ"}
             THEN <<"6-9", "9-12">>
        ELSE <<"3-6", "6-9", "9-12">>

\* lines 511-523: the emoji before the short name
kids_icon(text) ==
    IF Contains(text, <<"t", "h", "e", "a", "t", "e", "r">>)
       \/ Contains(text, <<"k", "a", "s", "p", "e", "r", "l">>)
    THEN "performing arts"
    ELSE IF Contains(text, <<"w", "o", "r", "k", "s", "h", "o", "p">>)
            \/ Contains(text, <<"b", "a", "s", "t", "e", "l", "n">>)
    THEN "artist palette"
    ELSE IF Contains(text, <<"m", "u", "s", "i", "k">>)
            \/ Contains(text, <<"k", "o", "n", "z", "e", "r", "t">>)
    THEN "musical note"
    ELSE IF Contains(text, <<"s", "p", "o", "r", "t">>)
            \/ Contains(text, <<"b", "e", "w", "e", "g", "u", "n", "g">>)
    THEN "soccer ball"
    ELSE IF Contains(text, <<"m", "u", "s", "e", "u", "m">>)
    THEN "classical building"
    ELSE "party popper"

\* lines 528-532
KIDS_TIPS == <<"Rechtzeitig da sein", "Snacks und Getraenke mitbringen",
               "Mit Oeffis anreisen">>

\* lines 535-540
kids_weather(text) ==
    IF any_in(
          {<<"d", "r", "a", "u", "ß", "e", "n">>,
           <<"o", "u", "t", "d", "o", "o", "r">>,
           <<"g", "a", "r", "t", "e", "n">>,
           <<"p", "a", "r", "k">>,
           <<"s", "p", "i", "e", "l", "p", "l", "a", "t", "z">>,
           <<"w", "a", "n", "d", "e", "r", "n">>}, text)
    THEN "good-weather"
    ELSE IF any_in(
          {<<"d", "r", "i", "n", "n", "e", "n">>,
           <<"i", "n", "d", "o", "o", "r">>,
           <<"h", "a", "l", "l", "e">>,
           <<"m", "u", "s", "e", "u", "m">>,
           <<"t", "h", "e", "a", "t", "e", "r">>}, text)
    THEN "indoor"
    ELSE "any"

\* lines 543-548
kids_energy(text) ==
    IF any_in(
          {<<"s", "p", "o", "r", "t">>,
           <<"t", "o", "b", "e", "n">>,
           <<"k", "l", "e", "t", "t", "e", "r", "n">>,
           <<"r", "e", "n", "n", "e", "n">>,
           <<"a", "c", "t", "i", "o", "n">>,
           <<"t", "r", "a", "m", "p", "o", "l", "i", "n">>}, text)
    THEN "aktiv"
    ELSE IF any_in(
          {<<"b", "a", "s", "t", "e", "l", "n">>,
           <<"m", "a", "l", "e", "n">>,
           <<"l", "e", "s", "e", "n">>,
           <<"m", "ä", "r", "c", "h", "e", "n">>,
           <<"r", "u", "h", "i", "g">>}, text)
    THEN "ruhig"
    ELSE "moderat"

\* the fields enrich_for_kids assigns
kids_fields(item) ==
    LET text == text_of(item)
    IN  [nameKids |-> <<kids_icon(text), Take(item["name"], NAME_KIDS)>>,
         ageGroups |-> kids_age_groups(item),
         parentTips |-> KIDS_TIPS,
         weatherDependent |-> kids_weather(text),
         energyLevel |-> kids_energy(text)]

\* item[k] = fields[k] for every k of fields
assign(item, fields) ==
    [k \in DOMAIN item \cup DOMAIN fields |->
        IF k \in DOMAIN fields THEN fields[k] ELSE item[k]]

\* (an enrichment that also stores the short name as the name)
enrich_for_kids_ShortName(item) ==
    assign(assign(item, kids_fields(item)),
           [name |-> Take(item["name"], NAME_KIDS)])

\* lines 487-550: the item with these fields assigned
enrich_for_kids(item) == assign(item, kids_fields(item))

\* lines 559-566
LOCATION_AGE_ROWS == <<
    [words |->
        {<<"b", "a", "b", "y">>,
         <<"k", "l", "e", "i", "n", "k", "i", "n", "d">>,
         <<"0", "-", "3">>,
         <<"u", "3">>,
         <<"k", "r", "a", "b", "b", "e", "l", "g", "r", "u", "p", "p", "e">>},
     tag |-> "0-3"],
    [words |->
        {<<"k", "i", "n", "d", "e", "r", "g", "a", "r", "t", "e", "n">>,
         <<"3", "-", "6">>,
         <<"v", "o", "r", "s", "c", "h", "u", "l", "e">>,
         <<"k", "i", "t", "a">>},
     tag |-> "3-6"],
    [words |->
        {<<"g", "r", "u", "n", "d", "s", "c", "h", "u", "l", "e">>,
         <<"6", "-", "9">>,
         <<"s", "c", "h", "u", "l", "k", "i", "n", "d">>},
     tag |-> "6-9"],
    [words |->
        {<<"a", "b", " ", "9">>,
         <<"a", "b", " ", "1", "0">>,
         <<"9", "-", "1", "2">>,
         <<"t", "e", "e", "n", "a", "g", "e", "r">>},
     tag |-> "9-12"]>>

\* lines 558-575
location_age_groups(item) ==
    LET age_groups == tags_in(LOCATION_AGE_ROWS, text_of(item))
        category == Get(item, "category", "")
    IN  IF age_groups # <<>> THEN age_groups
        ELSE IF category \in {"spielplatz", "outdoor"}
             THEN <<"3-6", "6-9">>
        ELSE IF category \in {"museum", "indoor"}
             THEN <<"6-9", "9-12">>
        ELSE <<"3-6", "6-9", "9-12">>

\* lines 581-592: the emoji before the short name
location_icon(text, category) ==
    IF Contains(text, <<"s", "p", "i", "e", "l", "p", "l", "a", "t", "z">>)
       \/ category = "spielplatz"
    THEN "national park"
    ELSE IF Contains(text, <<"m", "u", "s", "e", "u", "m">>)
            \/ category = "museum"
    THEN "classical building"
    ELSE IF Contains(text, <<"i", "n", "d", "o", "o", "r">>)
            \/ Contains(text, <<"h", "a", "l", "l", "e">>)
    THEN "house"
    ELSE IF Contains(text, <<"s", "c", "h", "w", "i", "m", "m">>)
            \/ Contains(text, <<"b", "a", "d">>)
    THEN "swimmer"
    ELSE IF Contains(text, <<"t", "i", "e", "r">>)
            \/ Contains(text, <<"z", "o", "o">>)
    THEN "lion"
    ELSE "direct hit"

\* lines 597-602
location_content(base_desc) ==
    [a36 |-> <<"Ein toller Ort", Take(base_desc, CONTENT_DESC)>>,
     a69 |-> <<"Spannend", Take(base_desc, CONTENT_DESC)>>,
     a912 |-> <<"Perfekt", Take(base_desc, CONTENT_DESC)>>]

\* lines 605-610
location_weather(text) ==
    IF any_in(
          {<<"o", "u", "t", "d", "o", "o", "r">>,
           <<"d", "r", "a", "u", "ß", "e", "n">>,
           <<"p", "a", "r", "k">>,
           <<"s", "p", "i", "e", "l", "p", "l", "a", "t", "z">>,
           <<"g", "a", "r", "t", "e", "n">>}, text)
    THEN "good-weather"
    ELSE IF any_in(
          {<<"i", "n", "d", "o", "o", "r">>,
           <<"d", "r", "i", "n", "n", "e", "n">>,
           <<"h", "a", "l", "l", "e">>,
           <<"m", "u", "s", "e", "u", "m">>}, text)
    THEN "indoor"
    ELSE "any"

\* lines 613-618
location_energy(text) ==
    IF any_in(
          {<<"s", "p", "o", "r", "t">>,
           <<"k", "l", "e", "t", "t", "e", "r", "n">>,
           <<"t", "o", "b", "e", "n">>,
           <<"a", "c", "t", "i", "o", "n">>,
           <<"s", "p", "i", "e", "l", "p", "l", "a", "t", "z">>}, text)
    THEN "high"
    ELSE IF any_in(
          {<<"b", "a", "s", "t", "e", "l", "n">>,
           <<"m", "a", "l", "e", "n">>,
           <<"l", "e", "s", "e", "n">>,
           <<"m", "u", "s", "e", "u", "m">>}, text)
    THEN "low"
    ELSE "medium"

\* lines 621-626
location_duration(text) ==
    IF Contains(text, <<"m", "u", "s", "e", "u", "m">>) THEN "2-3 Stunden"
    ELSE IF Contains(text, <<"s", "p", "i", "e", "l", "p", "l", "a", "t", "z">>)
    THEN "1-2 Stunden"
    ELSE "2-4 Stunden"

\* the list of the tags whose condition holds, in the order given
listed(rows) ==
    LET hit == SelectSeq(rows, LAMBDA r : r[1])
    IN  [i \in 1..Len(hit) |-> hit[i][2]]

\* lines 629-637
location_tips(text) ==
    listed(<<<<TRUE, "Wasser und Snacks">>,
             <<location_weather(text) = "good-weather", "Sonnenschutz">>,
             <<location_weather(text) = "indoor", "Wechselkleidung">>,
             <<Contains(text, <<"s", "p", "i", "e", "l", "p", "l", "a", "t", "z">>),
               "Erste-Hilfe-Set">>>>)

\* lines 640-646
location_highlights(text) ==
    listed(<<<<Contains(text, <<"k", "o", "s", "t", "e", "n", "l", "o", "s">>)
               \/ Contains(text, <<"f", "r", "e", "i">>),
               "Kostenloser Eintritt">>,
             <<Contains(text, <<"p", "a", "r", "k", "p", "l", "a", "t", "z">>)
               \/ Contains(text, <<"p", "a", "r", "k", "e", "n">>),
               "Parkplaetze vorhanden">>,
             <<Contains(text, <<"ö", "p", "n", "v">>)
               \/ Contains(text, <<"u", "-", "b", "a", "h", "n">>)
               \/ Contains(text, <<"b", "u", "s">>),
               "Gut mit Oeffis erreichbar">>>>)

\* lines 652-660
location_amenities(text) ==
    listed(<<<<Contains(text, <<"w", "i", "c", "k", "e", "l">>), "Wickelraum">>,
             <<Contains(text, <<"w", "c">>)
               \/ Contains(text, <<"t", "o", "i", "l", "e", "t", "t", "e">>),
               "WC">>,
             <<Contains(text, <<"p", "a", "r", "k", "p", "l", "a", "t", "z">>),
               "Parkplatz">>,
             <<Contains(text, <<"r", "o", "l", "l", "s", "t", "u", "h", "l">>)
               \/ Contains(text, <<"b", "a", "r", "r", "i", "e", "r", "e", "f", "r", "e", "i">>),
               "Rollstuhlgerecht">>>>)

\* the fields enrich_location assigns; highlights and amenities only when
\* their list is not empty (lines 648 and 662)
location_fields(item) ==
    LET text == text_of(item)
        all == [nameKids |-> <<location_icon(text, Get(item, "category", "")),
                               Take(Get(item, "name", <<>>), NAME_KIDS)>>,
                ageGroups |-> location_age_groups(item),
                content |-> location_content(Get(item, "description", <<>>)),
                weatherSuitable |-> location_weather(text),
                energyLevel |-> location_energy(text),
                duration |-> location_duration(text),
                parentTips |-> location_tips(text),
                highlights |-> location_highlights(text),
                amenities |-> location_amenities(text)]
        assigned == {k \in DOMAIN all :
                        k \in {"highlights", "amenities"} => all[k] # <<>>}
    IN  [k \in assigned |-> all[k]]

\* lines 553-671 with geocoder = None: the item with these fields assigned
enrich_location_NoGeocoder(item) == assign(item, location_fields(item))

\* names and descriptions of harvested records
ItemNames ==
    {<<"K", "a", "s", "p", "e", "r", "l", " ", "T", "h", "e", "a", "t", "e",
       "r">>,
     <<"W", "o", "r", "k", "s", "h", "o", "p", " ", "B", "a", "s", "t", "e",
       "l", "n">>,
     <<"K", "o", "n", "z", "e", "r", "t", " ", "a", "b", " ", "9">>,
     <<"S", "p", "o", "r", "t", "p", "l", "a", "t", "z">>,
     <<"Z", "o", "o">>,
     <<"S", "p", "i", "e", "l", "p", "l", "a", "t", "z", " ", "f", "r", "e",
       "i">>,
     <<"M", "u", "s", "e", "u", "m">> \o Rep("m", NAME_KIDS)}

ItemDescriptions ==
    {<<>>,
     <<"d", "r", "a", "u", "ß", "e", "n", " ", "i", "m", " ", "P", "a", "r",
       "k">>,
     <<"d", "r", "i", "n", "n", "e", "n", ",", " ", "W", "C", ",", " ", "a",
       "b", " ", "3">>,
     <<"P", "a", "r", "k", "p", "l", "a", "t", "z", ",", " ", "B", "u", "s">>}

ItemLinks == {<<"u">>, <<"v">>}

\* lines 814-824 (the JSON-LD records have "location", line 889)
location_category(text_lower) ==
    LET text == text_lower
    IN  IF Contains(text, <<"s", "p", "i", "e", "l", "p", "l", "a", "t", "z">>)
        THEN "spielplatz"
        ELSE IF Contains(text, <<"m", "u", "s", "e", "u", "m">>)
        THEN "museum"
        ELSE IF Contains(text, <<"i", "n", "d", "o", "o", "r">>)
                \/ Contains(text, <<"h", "a", "l", "l", "e">>)
        THEN "indoor"
        ELSE IF Contains(text, <<"s", "c", "h", "w", "i", "m", "m">>)
                \/ Contains(text, <<"b", "a", "d">>)
        THEN "schwimmbad"
        ELSE IF Contains(text, <<"t", "i", "e", "r">>)
                \/ Contains(text, <<"z", "o", "o">>)
        THEN "tierpark"
        ELSE "location"

\* the events as lines 230-243, 1064-1075, 1121-1131 and 1176-1188 build
\* them
KidsItems ==
    {[name |-> n, description |-> d, link |-> l,
      category |-> map_category(n \o <<" ">> \o d)] :
        n \in ItemNames, d \in ItemDescriptions, l \in ItemLinks}

\* the locations as lines 826-836 and 885-895 build them
PlaceItems ==
    UNION {{[name |-> n, description |-> d, link |-> l, category |-> c] :
               c \in {"location",
                      location_category(to_lower(n \o <<" ">> \o d))}} :
           n \in ItemNames, d \in ItemDescriptions, l \in ItemLinks}

\* lines 948, 1077, 1133 and 1190, and the enrichment of the result again
EnrichForKids(item) ==
    Applied("enrich_for_kids", item,
            [once |-> enrich_for_kids(item),
             twice |-> enrich_for_kids(enrich_for_kids(item))])

\* lines 725 and 839 with geocoder = None, and the enrichment of the
\* result again
EnrichLocation(item) ==
    Applied("enrich_location", item,
            [once |-> enrich_location_NoGeocoder(item),
             twice |-> enrich_location_NoGeocoder(
                           enrich_location_NoGeocoder(item))])

----------------------------------------------------------------------------
(* The selector fallback of harvest_html (lines 973-1082) on the elements  *)
(* the selectors found.  An element is the sequence of its text nodes,    *)
(* the heading first.                                                      *)

\* the 100 of line 988, the 20 of line 989, the 5 of line 1015
TEXT_PREFIX == 100

MIN_TEXT == 20

MIN_TITLE == 5

\* str.strip()
RECURSIVE lstrip(_)
lstrip(str) ==
    IF str # <<>> /\ Head(str) = " " THEN lstrip(Tail(str)) ELSE str

RECURSIVE rstrip(_)
rstrip(str) ==
    IF str # <<>> /\ str[Len(str)] = " "
    THEN rstrip(SubSeq(str, 1, Len(str) - 1))
    ELSE str

strip(str) == rstrip(lstrip(str))

\* elem.get_text(strip=True): every text node stripped, the empty ones
\* left out, the rest joined without a separator
RECURSIVE get_text_strip(_)
get_text_strip(elem) ==
    IF elem = <<>> THEN <<>>
    ELSE strip(Head(elem)) \o get_text_strip(Tail(elem))

\* the heading and the paragraph of an event teaser
Heading ==
    <<"K", "a", "s", "p", "e", "r", "l", " ", "i", "m", " ", "P", "a", "r",
      "k">>

Paragraph ==
    <<"a", "b", " ", "3", " ", "J", "a", "h", "r", "e", "n">>

\* the same teaser with whitespace added around and inside its text nodes
Fragments ==
    {<<Heading, Paragraph>>,
     <<<<" ">> \o Heading \o <<" ">>, Paragraph>>,
     <<Heading, <<" ">>, Paragraph \o <<" ", " ">>>>,
     <<SubSeq(Heading, 1, 8) \o <<" ">> \o SubSeq(Heading, 9, Len(Heading)),
       Paragraph>>,
     <<Heading,
       SubSeq(Paragraph, 1, 3) \o <<" ">>
           \o SubSeq(Paragraph, 4, Len(Paragraph))>>}

\* the pages whose selector finds three such teasers
Pages == [1..3 -> Fragments]

\* lines 985-991: seen and unique_elements after found_elements[1..n]
RECURSIVE unique_elements(_, _)
unique_elements(found_elements, n) ==
    IF n = 0 THEN [seen |-> {}, unique |-> <<>>]
    ELSE LET d == unique_elements(found_elements, n - 1)
             elem == found_elements[n]
             elem_text == Take(get_text_strip(elem), TEXT_PREFIX)
         IN  IF elem_text \notin d.seen /\ Len(elem_text) > MIN_TEXT
             THEN [seen |-> d.seen \cup {elem_text},
                   unique |-> Append(d.unique, elem)]
             ELSE d

\* lines 1003-1016 and 1066: the heading is the title, a title of less
\* than 5 characters gives no event
title_of(elem) == strip(Head(elem))

\* lines 996-1078: the names of the events of the unique elements
fallback_events(page) ==
    LET unique == unique_elements(page, Len(page)).unique
        kept == SelectSeq(unique, LAMBDA e : Len(title_of(e)) >= MIN_TITLE)
    IN  [i \in 1..Len(kept) |-> Take(title_of(kept[i]), NAME_STORED)]

HarvestHtmlFallback(page) ==
    Applied("harvest_html", page, fallback_events(page))

----------------------------------------------------------------------------
(* short (lines 483-485) *)

\* the characters str.strip() takes from the ends of a text
Whitespace == {" ", "\n", "\r"}

RECURSIVE lstrip_ws(_)
lstrip_ws(str) ==
    IF str # <<>> /\ Head(str) \in Whitespace THEN lstrip_ws(Tail(str))
    ELSE str

RECURSIVE rstrip_ws(_)
rstrip_ws(str) ==
    IF str # <<>> /\ str[Len(str)] \in Whitespace
    THEN rstrip_ws(SubSeq(str, 1, Len(str) - 1))
    ELSE str

\* .replace("\r", " ").replace("\n", " ")
replace_breaks(str) ==
    [i \in 1..Len(str) |-> IF str[i] \in {"\r", "\n"} THEN " " ELSE str[i]]

\* the one character U+2026 of line 485
ELLIPSIS == "ellipsis"

\* (the text cut at the limit, without the ellipsis)
short_Cut(text, lim) ==
    LET t == replace_breaks(rstrip_ws(lstrip_ws(or_empty(text))))
    IN  IF Len(t) <= lim THEN t ELSE Take(t, lim)

\* lines 484-485
short(text, lim) ==
    LET t == replace_breaks(rstrip_ws(lstrip_ws(or_empty(text))))
    IN  IF Len(t) <= lim THEN t ELSE Take(t, lim - 1) \o <<ELLIPSIS>>

\* the texts of up to MaxText characters, some with carriage returns, and
\* None
ShortTexts ==
    {NoneText} \cup SeqsUpTo({"a", " ", "\n"}, MaxText)
    \cup {<<"\r", "a">>, <<"a", "\r">>, <<"a", "\r", "a">>,
          <<"a", "\r", "\n", "a">>}

Short(text, lim) ==
    Applied("short", <<text, lim>>,
            [once |-> short(text, lim),
             twice |-> short(short(text, lim), lim)])

----------------------------------------------------------------------------
(* The structured data (JSON-LD) of a page: extract_json_ld and            *)
(* parse_event in harvest_html, and the loop of harvest_locations with    *)
(* parse_json_ld_location.  One action is one round of the loop over the  *)
(* script blocks.                                                          *)

\* a JSON object with its @type and its name ("" as <<>>)
\* and a description that is a text
Entry(type, name) ==
    [object |-> TRUE, type |-> type, name |-> name, description |-> "text"]

\* a Place whose description is a JSON list of texts
ListDescription == [Entry("Place", <<"d">>) EXCEPT !.description = "list"]

\* an item that is no JSON object (a string, a number)
NonObject ==
    [object |-> FALSE, type |-> "", name |-> <<>>, description |-> "text"]

\* two event names that differ after their first 200 characters
LongNames == {Rep("n", NAME_STORED) \o <<"a">>,
              Rep("n", NAME_STORED) \o <<"b">>}

EventItems ==
    {Entry("Event", n) : n \in LongNames \cup {<<>>}}
    \cup {Entry("Thing", <<"x">>), NonObject}

LocationItems ==
    {Entry("Place", <<"p">>), Entry("LocalBusiness", <<"l">>),
     Entry("TouristAttraction", <<"t">>), Entry("Place", <<>>),
     Entry("Thing", <<"x">>), NonObject, ListDescription}

ItemsOf(kind) == IF kind = "events" THEN EventItems ELSE LocationItems

\* the script blocks a page can hold: text that is no JSON, a script tag
\* without text (script.string is None), one object, an object with an
\* @graph collection, a list
BlocksOf(kind) ==
    {[shape |-> sh, items |-> <<>>] : sh \in {"unparseable", "empty"}}
    \cup {[shape |-> "object", items |-> <<e>>] :
             e \in ItemsOf(kind) \ {NonObject}}
    \cup {[shape |-> sh, items |-> q] :
             sh \in {"graph", "list"}, q \in SeqsUpTo(ItemsOf(kind), MaxEntries)}

TargetTypes(kind) ==
    IF kind = "events" THEN {"Event"}
    ELSE {"Place", "LocalBusiness", "TouristAttraction"}

\* the items of q that pass the test of the types
OfType(q, types) ==
    {q[i] : i \in {j \in 1..Len(q) : q[j].object /\ q[j].type \in types}}

\* lines 190-201, one round: the dicts that reach events, "skip" when the
\* except clause of line 200 takes the exception, "raise" when it does not
\* (json.loads(None) raises TypeError)
extract_json_ld(block) ==
    CASE block.shape = "unparseable" -> [status |-> "skip", data |-> {}]
      [] block.shape = "empty" -> [status |-> "raise", data |-> {}]
      [] block.shape = "object" ->
            [status |-> "ok", data |-> OfType(block.items, {"Event"})]
      [] block.shape = "graph" ->
            IF \E i \in 1..Len(block.items) : ~block.items[i].object
            THEN [status |-> "skip", data |-> {}]
            ELSE [status |-> "ok", data |-> OfType(block.items, {"Event"})]
      [] block.shape = "list" ->
            [status |-> "ok", data |-> OfType(block.items, {"Event"})]

\* lines 705-720, one round: the dicts handed to parse_json_ld_location
extract_locations(block) ==
    CASE block.shape \in {"unparseable", "empty"} ->
            [status |-> "skip", data |-> {}]
      [] block.shape = "object" ->
            [status |-> "ok",
             data |-> OfType(block.items,
                             {"Place", "LocalBusiness", "TouristAttraction"})]
      [] block.shape = "graph" -> [status |-> "ok", data |-> {}]
      [] block.shape = "list" ->
            [status |-> "ok",
             data |-> OfType(block.items, {"Place", "LocalBusiness"})]

\* the url of the page, and the startDate of its events
PageUrl == <<"u">>

StartDate == <<"2", "0", "2", "5", "-", "0", "1", "-", "0", "1", "T", "1", "0">>

\* lines 438-443: the German month names and their replacements, in the
\* order of the dict
MONTH_REPLACEMENTS ==
    <<<<<<"J", "a", "n", "u", "a", "r">>,
       <<"J", "a", "n", "u", "a", "r", "y">>>>,
     <<<<"F", "e", "b", "r", "u", "a", "r">>,
       <<"F", "e", "b", "r", "u", "a", "r", "y">>>>,
     <<<<"M", "ä", "r", "z">>,
       <<"M", "a", "r", "c", "h">>>>,
     <<<<"A", "p", "r", "i", "l">>,
       <<"A", "p", "r", "i", "l">>>>,
     <<<<"M", "a", "i">>,
       <<"M", "a", "y">>>>,
     <<<<"J", "u", "n", "i">>,
       <<"J", "u", "n", "e">>>>,
     <<<<"J", "u", "l", "i">>,
       <<"J", "u", "l", "y">>>>,
     <<<<"A", "u", "g", "u", "s", "t">>,
       <<"A", "u", "g", "u", "s", "t">>>>,
     <<<<"S", "e", "p", "t", "e", "m", "b", "e", "r">>,
       <<"S", "e", "p", "t", "e", "m", "b", "e", "r">>>>,
     <<<<"O", "k", "t", "o", "b", "e", "r">>,
       <<"O", "c", "t", "o", "b", "e", "r">>>>,
     <<<<"N", "o", "v", "e", "m", "b", "e", "r">>,
       <<"N", "o", "v", "e", "m", "b", "e", "r">>>>,
     <<<<"D", "e", "z", "e", "m", "b", "e", "r">>,
       <<"D", "e", "c", "e", "m", "b", "e", "r">>>>>>

\* str.replace(old, new)
RECURSIVE replace(_, _, _)
replace(str, old, new) ==
    IF Len(str) < Len(old) THEN str
    ELSE IF SubSeq(str, 1, Len(old)) = old
         THEN new \o replace(SubSeq(str, Len(old) + 1, Len(str)), old, new)
         ELSE <<Head(str)>> \o replace(Tail(str), old, new)

\* lines 444-445: the loop over the replacements, rows 1..n done
RECURSIVE replace_months(_, _)
replace_months(date_str, n) ==
    IF n = 0 THEN date_str
    ELSE replace(replace_months(date_str, n - 1),
                 MONTH_REPLACEMENTS[n][1], MONTH_REPLACEMENTS[n][2])

DigitChars == {"0", "1", "2", "3", "4", "5", "6", "7", "8", "9"}

TWO_DIGITS ==
    <<<<"0", "1">>, <<"0", "2">>, <<"0", "3">>, <<"0", "4">>,
      <<"0", "5">>, <<"0", "6">>, <<"0", "7">>, <<"0", "8">>,
      <<"0", "9">>, <<"1", "0">>, <<"1", "1">>, <<"1", "2">>>>

\* the text starts with YYYY-MM-DD
IsIso(str) ==
    /\ Len(str) >= 10
    /\ \A i \in {1, 2, 3, 4, 6, 7, 9, 10} : str[i] \in DigitChars
    /\ str[5] = "-"
    /\ str[8] = "-"

\* the month of a text of the form "D. Month YYYY" with an English month
\* name, 0 for any other text
month_of(str) ==
    IF Len(str) < 9 \/ str[1] \notin DigitChars \ {"0"}
       \/ SubSeq(str, 2, 3) # <<".", " ">> \/ str[Len(str) - 4] # " "
       \/ \E i \in (Len(str) - 3)..Len(str) : str[i] \notin DigitChars
    THEN 0
    ELSE LET name == SubSeq(str, 4, Len(str) - 5)
             hits == {m \in 1..Len(MONTH_REPLACEMENTS) :
                         MONTH_REPLACEMENTS[m][2] = name}
         IN  IF hits = {} THEN 0 ELSE CHOOSE m \in hits : TRUE

\* line 448, dateutil's parser.parse(date_str), for the texts of the model:
\* the date of an ISO date or date-time and of "D. Month YYYY"; for a text
\* that holds no date ("", "None", words) it raises ParserError
dateutil_parse(date_str) ==
    IF IsIso(date_str) THEN [ok |-> TRUE, date |-> Take(date_str, 10)]
    ELSE IF month_of(date_str) # 0
    THEN [ok |-> TRUE,
          date |-> SubSeq(date_str, Len(date_str) - 3, Len(date_str))
                   \o <<"-">> \o TWO_DIGITS[month_of(date_str)]
                   \o <<"-", "0", date_str[1]>>]
    ELSE [ok |-> FALSE, date |-> <<>>]


\* the date of the run, datetime.now(timezone.utc).date() of lines 450
\* and 453
Today == <<"2", "0", "2", "5", "-", "0", "6", "-", "1", "5">>

\* a datetime object: the mark and its isoformat()
DateTime(iso) == <<"datetime">> \o iso

\* str(value) of line 436
to_str(value) == IF value = NoneText THEN <<"N", "o", "n", "e">> ELSE value

\* (no except clause around the parse: the exception leaves the function)
normalize_date_Raising(value) ==
    IF value # <<>> /\ Head(value) = "datetime" THEN Take(Tail(value), 10)
    ELSE LET r == dateutil_parse(
                      replace_months(to_str(value), Len(MONTH_REPLACEMENTS)))
         IN  IF r.ok THEN r.date ELSE <<"ParserError">>

\* lines 431-456: a datetime gives its date; a text is parsed after the
\* month names are replaced, and gives the date of the run when the parse
\* raises
normalize_date(value) ==
    IF value # <<>> /\ Head(value) = "datetime" THEN Take(Tail(value), 10)
    ELSE LET r == dateutil_parse(
                      replace_months(to_str(value), Len(MONTH_REPLACEMENTS)))
         IN  IF r.ok THEN r.date ELSE Today

\* what normalize_date is handed: datetime objects, ISO texts, dates with a
\* German or an English month name, texts without a date, "" and None
DateInputs ==
    {DateTime(StartDate), DateTime(Today), StartDate, Take(StartDate, 10),
     <<"1", ".", " ", "M", "ä", "r", "z", " ", "2", "0", "2", "5">>,
     <<"3", ".", " ", "M", "a", "i", " ", "2", "0", "2", "5">>,
     <<"2", ".", " ", "D", "e", "z", "e", "m", "b", "e", "r", " ", "2", "0", "2", "5">>,
     <<"4", ".", " ", "J", "u", "n", "e", " ", "2", "0", "2", "5">>,
     <<"5", ".", " ", "J", "a", "n", "u", "a", "r", "y", " ", "2", "0", "2", "5">>,
     <<"x", "y", "z">>,
     <<"9", ".", " ", "F", "o", "o", " ", "2", "0", "2", "5">>,
     <<>>, NoneText}

NormalizeDate(value) ==
    Applied("normalize_date", value, normalize_date(value))

\* lines 425-426: the digest stands for the string it was computed from
\* (no two strings of the model share a digest)
sha1_16(str) == <<"sha1_16", str>>

\* lines 428-429
stable_id(title, date_iso, link) ==
    <<"ev-", sha1_16(title \o <<"|">> \o date_iso \o <<"|">> \o link)>>

\* lines 209-232, for an event without a url of its own
parse_event(event_data, source_url) ==
    IF event_data.name = <<>> THEN None
    ELSE LET date_iso == normalize_date(StartDate)
         IN  [id |-> stable_id(event_data.name, date_iso, source_url),
              name |-> Take(event_data.name, NAME_STORED),
              date |-> date_iso, link |-> source_url]

\* lines 862-888; desc[:500] of a list is a list
parse_json_ld_location(data, source_url) ==
    IF data.name = <<>> THEN None
    ELSE [name |-> Take(data.name, NAME_STORED), link |-> source_url,
          description |-> data.description]

parse(kind, data) ==
    IF kind = "events" THEN parse_event(data, PageUrl)
    ELSE parse_json_ld_location(data, PageUrl)

\* the entries of a block the extraction is to find
Expected(kind, block) ==
    {e \in OfType(block.items, TargetTypes(kind)) : e.name # <<>>}

\* the block is, or holds, a malformed entry
Malformed(block) ==
    \/ block.shape \in {"unparseable", "empty"}
    \/ \E i \in 1..Len(block.items) : ~block.items[i].object

\* the harvest of the page has not returned yet
NotReturned ==
    [done |-> FALSE, records |-> {}, success |-> FALSE, fallback |-> FALSE,
     selected |-> {}]

\* the titles the selector chain finds on a page
Selections == {{}, {Heading}}

\* a returned record with the strategy that built it
JsonLd(found) == {<<"json-ld", r>> : r \in found}

Selector(selected) == {<<"selector", name>> : name \in selected}

\* harvest_html line 938 / harvest_locations line 700: a page is parsed
NewPage(kind) ==
    /\ x_kind' = kind
    /\ x_blocks' = 0
    /\ x_found' = {}
    /\ x_expected' = {}
    /\ x_malformed' = FALSE
    /\ x_aborted' = FALSE
    /\ x_ret' = NotReturned
    /\ (x_blocks > 0 \/ x_kind # kind \/ x_ret.done)
    /\ UNCHANGED notExtract

\* one round of the loop of lines 190-201 or 705-720 with the parse of
\* lines 945-949 or 709-718; the exception that leaves extract_json_ld
\* ends in lines 1091-1095, harvest_html returns []
ExtractBlock(block) ==
    /\ ~x_aborted
    /\ ~x_ret.done
    /\ x_blocks < MaxBlocks
    /\ x_blocks' = x_blocks + 1
    /\ x_expected' = x_expected \cup Expected(x_kind, block)
    /\ x_malformed' = (x_malformed \/ Malformed(block))
    /\ LET r == IF x_kind = "events" THEN extract_json_ld(block)
                ELSE extract_locations(block)
       IN  /\ x_aborted' = (r.status = "raise")
           /\ x_found' =
                 IF r.status = "raise" THEN {}
                 ELSE x_found \cup
                      ({parse(x_kind, d) : d \in r.data} \ {None})
    /\ UNCHANGED <<x_kind, x_ret, notExtract>>

\* enrich_location line 555: item.get('name', '') + ' ' +
\* item.get('description', '') raises TypeError for a description that is
\* no text
enrich_raises(kind, found) ==
    kind = "locations" /\ \E r \in found : r.description # "text"

\* the way out of harvest_html and harvest_locations after the blocks of
\* the page: lines 1091-1095 and 853-857 after an exception, that of
\* enrich_location at line 725 included; lines 951-955 and 722-728 with
\* records of the structured data; else the selector fallback, whose
\* elements give selected, and lines 1084-1089 and 846-851
HarvestReturn(selected) ==
    /\ ~x_ret.done
    /\ x_ret' =
          IF x_aborted \/ enrich_raises(x_kind, x_found)
          THEN [done |-> TRUE, records |-> {}, success |-> FALSE,
                fallback |-> FALSE, selected |-> selected]
          ELSE IF x_found # {}
          THEN [done |-> TRUE, records |-> JsonLd(x_found),
                success |-> TRUE, fallback |-> FALSE, selected |-> selected]
          ELSE [done |-> TRUE, records |-> Selector(selected),
                success |-> Cardinality(selected) > 0, fallback |-> TRUE,
                selected |-> selected]
    /\ UNCHANGED <<x_kind, x_blocks, x_found, x_expected, x_malformed,
                   x_aborted, notExtract>>

----------------------------------------------------------------------------

InitFetch ==
    /\ elapsed = [d \in {} |-> 0]
    /\ failure_count = [d \in Domains |-> 0]
    /\ gpc = "idle"
    /\ gurl = "http://a/1"
    /\ attempt = 0
    /\ resps = <<>>
    /\ glog = <<>>
    /\ slept = 0
    /\ result = "pending"
    /\ fc0 = 0
    /\ last_wait = NoWait

InitQuality ==
    /\ stats = <<>>
    /\ stats_file = <<>>
    /\ phase = "idle"
    /\ todo = {}
    /\ returned = <<>>
    /\ skipped = {}
    /\ fetched = <<>>

\* STATS_FILE after ten runs in which neither the page nor the location
\* page answered
LowStats ==
    [url \in {"http://a/1", "http://b/1"} |->
        [attempts |-> 10, successes |-> 0, total_events |-> 0,
         last_success |-> "None"]]

\* main starts with no stats file, or with the one of ten failed runs
InitQualityMain ==
    /\ stats = <<>>
    /\ stats_file \in {<<>>, LowStats}
    /\ phase = "idle"
    /\ todo = {}
    /\ returned = <<>>
    /\ skipped = {}
    /\ fetched = <<>>

InitGeo ==
    /\ cache = <<>>
    /\ cache_file = <<>>
    /\ geo_elapsed = GeoSpacing
    /\ since_sent = 0
    /\ sent_any = FALSE
    /\ gaps = <<>>
    /\ calls = [k \in CacheKeys |-> <<>>]
    /\ emitted = None

InitMerge ==
    /\ m_kind = "events"
    /\ m_in = <<>>
    /\ m_out = None

InitMain ==
    /\ mpc = "none"
    /\ runs = 0
    /\ manual_events = <<>>
    /\ all_events = <<>>
    /\ main_events = <<>>
    /\ output_file = None
    /\ wrote = None

\* OUTPUT_FILE as an earlier run wrote it, in which the feed, the calendar
\* and the location page gave a record each
PriorOutput ==
    LET events == <<RecordOf(<<"rss", "http://a/feed">>, 1),
                    RecordOf(<<"ical", "http://b/cal">>, 1)>>
        locations == <<RecordOf(<<"locations", "http://b/1">>, 1)>>
    IN  with_metadata(update_locations(update_events(NoData, events),
                                       locations), events)

\* main starts without an output file, or with the one of an earlier run
InitMainRun ==
    /\ mpc = "none"
    /\ runs = 0
    /\ manual_events = <<>>
    /\ all_events = <<>>
    /\ main_events = <<>>
    /\ output_file \in {None, PriorOutput}
    /\ wrote = None

InitWorkers ==
    /\ wpc = [w \in Workers |-> "idle"]
    /\ wtmp = [w \in Workers |-> 0]
    /\ wdict = [w \in Workers |-> 0]
    /\ wsuccess = [w \in Workers |-> FALSE]
    /\ dict_id = 0
    /\ started = 0
    /\ done = [kind \in {"failure", "success", "record_ok", "record_failed"}
                  |-> 0]
    /\ wait_gap = <<>>

InitExtract ==
    /\ x_kind = "events"
    /\ x_blocks = 0
    /\ x_found = {}
    /\ x_expected = {}
    /\ x_malformed = FALSE
    /\ x_aborted = FALSE
    /\ x_ret = NotReturned

InitUnits ==
    /\ u_phase = "events"
    /\ u_todo = EventSources
    /\ u_at = [t \in Threads |-> "idle"]
    /\ u_left = [t \in Threads |-> 0]

InitText ==
    /\ t_op = "none"
    /\ t_in = <<>>
    /\ t_out = <<>>

Init ==
    InitFetch /\ InitQuality /\ InitGeo /\ InitMerge /\ InitMain
    /\ InitWorkers /\ InitExtract /\ InitText /\ InitUnits

NextFetch ==
    \/ \E url \in Urls : GetStart(url)
    \/ Get200
    \/ Get429
    \/ Get403_404
    \/ GetOther
    \/ GetException
    \/ GetRaise
    \/ \E url \in MalformedUrls : GetStartRaises(url)
    \/ GetReturn
    \/ Tick

SpecFetch == Init /\ [][NextFetch]_vars

\* one call of get from its first line to its return or raise
NextGet ==
    \/ \E url \in Urls : GetStart(url)
    \/ Get200
    \/ Get429
    \/ Get403_404
    \/ GetOther
    \/ GetException
    \/ GetRaise

\* the thread that runs get keeps running, and every request is answered
\* or raises (the timeout of line 146)
SpecGet == Init /\ [][NextGet]_vars /\ WF_vars(NextGet)

NextQuality ==
    \/ StartEvents /\ UNCHANGED mainVars
    \/ StartLocations /\ UNCHANGED mainVars
    \/ \E src \in Sources : HarvestSkip(src) /\ UNCHANGED mainVars
    \/ \E src \in Sources : HarvestNoResponse(src) /\ UNCHANGED mainVars
    \/ \E src \in Sources : \E n \in 1..MaxItems :
          HarvestJsonLd(src, n) /\ UNCHANGED mainVars
    \/ \E src \in Sources : \E n \in 0..MaxItems :
          HarvestFallback(src, n) /\ UNCHANGED mainVars
    \/ \E src \in Sources : HarvestException(src) /\ UNCHANGED mainVars
    \/ \E src \in Sources : \E n \in 0..MaxItems :
          HarvestRss(src, n) /\ UNCHANGED mainVars
    \/ \E src \in Sources : \E n \in 0..MaxItems :
          HarvestIcal(src, n) /\ UNCHANGED mainVars
    \/ \E src \in Sources : WorkerError(src) /\ UNCHANGED mainVars
    \/ Finish /\ UNCHANGED mainVars
    \/ FinishSaveFails /\ UNCHANGED mainVars

SpecQuality == Init /\ [][NextQuality]_vars

NextGeo ==
    \/ \E a \in Addresses : \E c \in Cities : \E geo \in Embedded :
          GeocodeCached(a, c) /\ enrich_location(a, c, geo)
    \/ \E a \in Addresses : \E c \in Cities : \E geo \in Embedded :
          \E dur \in 0..GeoSpacing :
             GeocodeError(a, c, dur) /\ enrich_location(a, c, geo)
    \/ \E a \in Addresses : \E c \in Cities : \E geo \in Embedded :
          \E dur \in 0..GeoSpacing : \E r \in GeoResults : \E ok \in BOOLEAN :
             GeocodeFound(a, c, dur, r, ok) /\ enrich_location(a, c, geo)
    \/ \E a \in Addresses : \E c \in Cities : \E geo \in Embedded :
          \E dur \in 0..GeoSpacing :
             GeocodeMalformed(a, c, dur) /\ enrich_location(a, c, geo)
    \/ \E a \in Addresses : \E c \in Cities : \E geo \in Embedded :
          \E dur \in 0..GeoSpacing : \E st \in {"empty", "non200"} :
             \E ok \in BOOLEAN :
                GeocodeNotFound(a, c, dur, st, ok) /\ enrich_location(a, c, geo)
    \/ NewGeocoder
    \/ GeoTick

SpecGeo == Init /\ [][NextGeo]_vars

NextMerge ==
    \/ \E kind \in {"events", "locations"} : MergeStart(kind)
    \/ \E r \in EventRecords : m_kind = "events" /\ MergeCollect(r)
    \/ \E r \in LocationRecords : m_kind = "locations" /\ MergeCollect(r)
    \/ MergeDedup

SpecMerge == Init /\ [][NextMerge]_vars

NextMain ==
    \/ \E manual \in ManualLists : MainStart(manual)
    \/ \E src \in Sources : HarvestSkip(src) /\ extend(src, 0)
    \/ \E src \in Sources : HarvestNoResponse(src) /\ extend(src, 0)
    \/ \E src \in Sources : \E n \in 1..MaxItems :
          HarvestJsonLd(src, n) /\ extend(src, n)
    \/ \E src \in Sources : \E n \in 0..MaxItems :
          HarvestFallback(src, n) /\ extend(src, n)
    \/ \E src \in Sources : HarvestException(src) /\ extend(src, 0)
    \/ \E src \in Sources : \E n \in 0..MaxItems :
          HarvestRss(src, n) /\ extend(src, n)
    \/ \E src \in Sources : \E n \in 0..MaxItems :
          HarvestIcal(src, n) /\ extend(src, n)
    \/ \E src \in Sources : WorkerError(src) /\ extend(src, 0)
    \/ MainCombine
    \/ MainLocations
    \/ MainWrite
    \/ MainCrash

NextWorkers ==
    \/ \E w \in Workers : WorkerCall(w, "rf_read", FALSE)
    \/ \E w \in Workers : WorkerCall(w, "rs_check", FALSE)
    \/ \E w \in Workers : \E success \in BOOLEAN :
          WorkerCall(w, "r_check", success)
    \/ \E w \in Workers : FailureRead(w)
    \/ \E w \in Workers : FailureWrite(w)
    \/ \E w \in Workers : SuccessCheck(w)
    \/ \E w \in Workers : SuccessRead(w)
    \/ \E w \in Workers : SuccessWrite(w)
    \/ \E w \in Workers : RecordCheck(w)
    \/ \E w \in Workers : RecordNew(w)
    \/ \E w \in Workers : AttemptsRead(w)
    \/ \E w \in Workers : AttemptsWrite(w)
    \/ \E w \in Workers : SuccessesRead(w)
    \/ \E w \in Workers : SuccessesWrite(w)
    \/ \E w \in Workers : TotalRead(w)
    \/ \E w \in Workers : TotalWrite(w)
    \/ \E w \in Workers : LastSuccess(w)

SpecWorkers == Init /\ [][NextWorkers]_vars

NextWait ==
    \/ \E w \in Workers : WaitCall(w)
    \/ \E w \in Workers : WaitReturn(w)
    \/ WaitTick

SpecWait == Init /\ [][NextWait]_vars

NextUnits ==
    \/ \E t \in Threads : \E src \in EventSources : \E n \in 0..MaxCalls :
          UnitCrawl(t, src, n)
    \/ \E src \in LocationSources : \E n \in 0..MaxCalls : UnitHarvest(src, n)
    \/ \E t \in Threads : UnitGeocode(t)
    \/ \E t \in Threads : UnitGeocoded(t)
    \/ \E t \in Threads : UnitReturn(t)
    \/ UnitEventsDone
    \/ UnitLocationsDone

SpecUnits == Init /\ [][NextUnits]_vars

NextExtract ==
    \/ \E kind \in {"events", "locations"} : NewPage(kind)
    \/ \E block \in BlocksOf(x_kind) : ExtractBlock(block)
    \/ \E selected \in Selections : HarvestReturn(selected)

SpecExtract == Init /\ [][NextExtract]_vars

NextText ==
    \/ \E text \in Texts : MapCategory(text)
    \/ \E page \in Pages : HarvestHtmlFallback(page)
    \/ \E item \in KidsItems : EnrichForKids(item)
    \/ \E item \in PlaceItems : EnrichLocation(item)
    \/ \E text \in ShortTexts : \E lim \in 1..MaxLimit : Short(text, lim)
    \/ \E value \in DateInputs : NormalizeDate(value)

SpecText == Init /\ [][NextText]_vars

InitOfMain ==
    InitFetch /\ InitQualityMain /\ InitGeo /\ InitMerge /\ InitMainRun
    /\ InitWorkers /\ InitExtract /\ InitText /\ InitUnits

SpecMain == InitOfMain /\ [][NextMain]_vars

----------------------------------------------------------------------------
(* Claims about SessionManager.get and SmartRateLimiter (SpecFetch) *)

Sum3(q) == q[1] + q[2] + q[3]

\* the attempts of the call that ended with a status other than 200, 429,
\* 403 or 404, or with a network exception
FailedAttempts == {i \in 1..Len(resps) : resps[i] \notin {200, 429, 403, 404}}

\* C1: when the first three attempts of a get call are answered 429 (and
\* the server would answer 200 after them), the finished call has returned
\* the 200 payload and has slept RETRY_BACKOFF[0] + [1] + [2] = 17 seconds
\* of backoff.
C1_PayloadAfterThree429 ==
    (gpc = "done" /\ Len(resps) >= 3
        /\ \A i \in 1..3 : resps[i] = 429)
    => (result = "Response" /\ slept = Sum3(RETRY_BACKOFF))

\* what the code does in the case of C1: three 429 answers end the call
\* with no payload after 17 seconds of backoff
C1_CodeBehaviour ==
    (gpc = "done" /\ Len(resps) >= 3
        /\ \A i \in 1..3 : resps[i] = 429)
    => (result = "None" /\ Len(resps) = 3 /\ slept = Sum3(RETRY_BACKOFF))

C1_Witness == gpc = "done" /\ resps = <<429, 429, 429>>

\* C2: within one get call, a throttle wait lies between any two requests:
\* wait(url) is called before every attempt, retries included.
C2_WaitBeforeEveryAttempt ==
    \A i \in 1..Len(glog) : \A j \in 1..Len(glog) :
        (i < j /\ glog[i] = "req" /\ glog[j] = "req")
        => \E k \in (i + 1)..(j - 1) : glog[k] = "wait"

\* C3: every attempt that ends with a status other than 200, 429, 403, 404
\* or with a network exception raises the failure counter of the domain by
\* one and is retried until MAX_RETRIES attempts are used up, after which
\* get returns no payload.
C3_FailuresCountedAndRetried ==
    gpc = "done" =>
        LET k == Cardinality(FailedAttempts)
            d == get_domain(gurl)
        IN  /\ failure_count[d] =
                   IF result = "Response" THEN Max(0, fc0 + k - 1) ELSE fc0 + k
            /\ Len(resps) \in FailedAttempts
                   => (Len(resps) = MAX_RETRIES /\ result = "None")

\* C4: a 403 or 404 answer on any attempt ends the get call at once with
\* no payload: it is the last answer of the call, no request and no
\* backoff sleep follows it.
C4_ForbiddenReturnsAtOnce ==
    \A i \in 1..Len(resps) :
        resps[i] \in {403, 404}
        => /\ i = Len(resps)
           /\ gpc = "done"
           /\ result = "None"
           /\ glog[Len(glog)] = "req"
           /\ Cardinality({k \in 1..Len(glog) : glog[k] = "req"}) = i

C4_Witness ==
    /\ gpc = "done"
    /\ Len(resps) = 2
    /\ resps[1] = 429
    /\ resps[2] = 404
    /\ slept = RETRY_BACKOFF[1]

\* the interval of the claim for the default base of 2 s: min(2 + n, 10)
C5_Interval(n) == IF 2 + n < 10 THEN 2 + n ELSE 10

\* C5: for every domain and failure count n the interval wait enforces is
\* min(base * (1 + 0.5 n), 10 s) = min(2 + n, 10): the wait of a get call
\* computes it and leaves at least that long since the domain's last
\* request; the interval never exceeds 10 s and does not decrease in n.
C5_WaitInterval ==
    /\ gpc # "idle" =>
          /\ last_wait.limit = C5_Interval(last_wait.n)
          /\ last_wait.limit <= 10
          /\ last_wait.had_prev =>
                last_wait.before + last_wait.sleep >= C5_Interval(last_wait.n)
          /\ last_wait.sleep > 0 =>
                last_wait.before + last_wait.sleep = C5_Interval(last_wait.n)
    /\ \A d \in Domains :
          /\ limit(base_limit(d), failure_count[d])
                = C5_Interval(failure_count[d])
          /\ limit(base_limit(d), failure_count[d])
                <= limit(base_limit(d), failure_count[d] + 1)

C5_Witness ==
    /\ gpc = "loop"
    /\ last_wait.n = 9
    /\ last_wait.had_prev
    /\ last_wait.sleep = 7

\* the step of a get call that calls record_success: the 200 answer
C6_SuccessStep == result # "Response" /\ result' = "Response"

\* the step of a get call that calls record_failure: the network exception
C6_FailureStep ==
    /\ Len(resps') = Len(resps) + 1
    /\ resps'[Len(resps')] = EXC

\* C6: the failure counter of a domain is never negative; record_success
\* lowers it by exactly one when it is positive and leaves it at zero
\* otherwise, record_failure raises it by exactly one, and nothing else
\* changes it (no counter of another domain either).
C6_FailureCounter ==
    /\ [](\A d \in Domains : failure_count[d] >= 0)
    /\ [][\A d \in Domains :
            failure_count'[d] =
                IF d # get_domain(gurl) THEN failure_count[d]
                ELSE IF C6_SuccessStep
                     THEN (IF failure_count[d] > 0
                           THEN failure_count[d] - 1 ELSE 0)
                ELSE IF C6_FailureStep THEN failure_count[d] + 1
                ELSE failure_count[d]]_vars

C6_Witness ==
    /\ gpc = "done"
    /\ result = "Response"
    /\ resps = <<200>>
    /\ fc0 = 3
    /\ failure_count[get_domain(gurl)] = 2

\* C22: SessionManager.get never raises: whatever fails while the request is
\* prepared, sent or read, the call ends by returning, with the response or
\* with None.
C22_GetNeverRaises == result # "Raised"

\* C31: a get call all of whose attempts were answered 429 leaves the
\* failure counter of the domain as it was before the call (no
\* record_failure, no record_success) and returns no payload.
C31_All429(n) ==
    /\ gpc = "done"
    /\ Len(resps) = n
    /\ \A i \in 1..n : resps[i] = 429

C31_RateLimitedLeavesCounter ==
    \A n \in 1..MAX_RETRIES :
        C31_All429(n) =>
            /\ failure_count[get_domain(gurl)] = fc0
            /\ result # "Response"
            /\ n = MAX_RETRIES => result = "None"

C31_Witness ==
    /\ C31_All429(MAX_RETRIES)
    /\ fc0 >= 1
    /\ failure_count[get_domain(gurl)] = fc0
    /\ result = "None"

\* the delay of the claim for the 0-based attempt a
C25_Delay(a) ==
    RETRY_BACKOFF[(IF a < Len(RETRY_BACKOFF) - 1
                   THEN a ELSE Len(RETRY_BACKOFF) - 1) + 1]

\* the delays after the first n answers of the call: one after every 429,
\* one after every network exception that is not the last attempt
RECURSIVE C25_Delays(_)
C25_Delays(n) ==
    IF n = 0 THEN 0
    ELSE C25_Delays(n - 1)
         + (IF resps[n] = 429 \/ (resps[n] = EXC /\ n < MAX_RETRIES)
            THEN C25_Delay(n - 1) ELSE 0)

\* C25: a get call sends at most MAX_RETRIES (3) requests, every delay it
\* sleeps is RETRY_BACKOFF[min(attempt, len(RETRY_BACKOFF) - 1)], an entry
\* of the table, and the call ends whatever the answers and exceptions
\* are.
C25_GetTerminates ==
    /\ [](/\ Cardinality({k \in 1..Len(glog) : glog[k] = "req"})
              <= MAX_RETRIES
          /\ Len(resps) <= MAX_RETRIES
          /\ slept = C25_Delays(Len(resps)))
    /\ (gpc = "loop") ~> (gpc = "done")

C25_Witness ==
    /\ gpc = "done"
    /\ resps = <<EXC, 429, 429>>
    /\ slept = RETRY_BACKOFF[1] + RETRY_BACKOFF[2] + RETRY_BACKOFF[3]

----------------------------------------------------------------------------
(* Claims about SourceQualityTracker and the harvest (SpecQuality) *)

\* the entry of url in st has attempts >= 10 and successes / attempts < 0.2
C7_Low(st, url) ==
    /\ url \in DOMAIN st
    /\ st[url].attempts >= 10
    /\ 5 * st[url].successes < st[url].attempts

\* C7: should_skip(url) is true exactly when the entry of url has
\* attempts >= 10 and successes / attempts < 0.2; it is false for a source
\* with fewer than 10 attempts and for an unseen source.  A harvest skips
\* a source exactly when the stats it loaded hold such an entry.
C7_ShouldSkip ==
    /\ \A url \in SourceUrls :
          /\ should_skip(stats, url) <=> C7_Low(stats, url)
          /\ url \notin DOMAIN stats => ~should_skip(stats, url)
          /\ (url \in DOMAIN stats /\ stats[url].attempts < 10)
                => ~should_skip(stats, url)
    /\ \A src \in DOMAIN returned :
          src[1] \in {"html", "locations"}
          => (src \in skipped <=> C7_Low(stats_file, src[2]))

C7_Witness ==
    \E src \in skipped :
        /\ stats[src[2]].attempts = 10
        /\ stats[src[2]].successes = 1

\* the attempts of url in the stats the phase loaded
C8_AttemptsBefore(url) ==
    IF url \in DOMAIN stats_file THEN stats_file[url].attempts ELSE 0

\* C8: every harvest attempt on a configured source of any type (feed,
\* HTML page, calendar, location page) updates the quality entry of the
\* source: once a source was dispatched and not skipped, its entry exists
\* and its attempts have grown by one.
C8_EveryAttemptRecorded ==
    \A src \in DOMAIN returned :
        src \notin skipped
        => /\ src[2] \in DOMAIN stats
           /\ stats[src[2]].attempts = C8_AttemptsBefore(src[2]) + 1

----------------------------------------------------------------------------
(* Claims about Geocoder.geocode (SpecGeo) *)

\* the cache keys called twice with the identical address
C9_CalledTwice ==
    {k \in CacheKeys : Len(calls[k]) >= 2 /\ calls[k][1].addr = calls[k][2].addr}

\* C9: whatever the outcome of the first geocode call for an address
\* (found, not found, non-200 answer, request error), a second call with
\* the identical address and city sends no request and returns the same
\* result as the first.
C9_SecondCallFromCache ==
    \A k \in C9_CalledTwice :
        /\ calls[k][2].net = 0
        /\ calls[k][2].ret = calls[k][1].ret

\* C9 as amended: when the first call got an answer that geocode caches
\* (found, not found, non-200), or was itself answered from the cache, the
\* second call sends no request and returns the cached result of the first
\* lookup, which is what the first call returned unless that call found
\* coordinates and failed to save the cache; when the request of the first
\* call raised, nothing is cached and the second call sends a request.
C9_SecondCallAmended ==
    \A k \in C9_CalledTwice :
        LET c1 == calls[k][1]
            c2 == calls[k][2]
        IN  /\ c1.outcome \in {"found", "empty", "non200", "cached"}
                => /\ c2.net = 0
                   /\ c2.outcome = "cached"
                   /\ c1.outcome \in {"empty", "non200"} => c2.ret = None
                   /\ c1.outcome = "found" => c2.ret \in GeoResults
                   /\ (c1.saved \/ c1.outcome # "found") => c2.ret = c1.ret
            /\ c1.outcome = "error"
                => (c1.ret = None /\ c2.net = 1 /\ c2.outcome # "cached")

C9_Witness ==
    \E k \in C9_CalledTwice :
        /\ calls[k][1].outcome = "non200"
        /\ calls[k][2].ret = None
        /\ calls[k][2].net = 0
        /\ \E j \in C9_CalledTwice :
              calls[j][1].outcome = "error" /\ calls[j][2].outcome = "found"

\* C10: any two consecutive requests sent by geocode are at least one
\* second apart, whatever the outcome of the earlier one.
C10_RequestSpacing == gaps # <<>> => gaps[1] >= GeoSpacing

\* C11: geocode stores a tombstone (None) for a key only after a 200 answer
\* with an empty result list: a key whose latest lookup ended with a
\* non-200 answer or with a failed request has no tombstone in the cache.
C11_TombstoneOnlyWhenNotFound ==
    \A k \in CacheKeys :
        (Len(calls[k]) > 0
            /\ calls[k][Len(calls[k])].outcome \in {"non200", "error"})
        => ~(k \in DOMAIN cache /\ cache[k] = None)

\* C17: a failure to write the cache file does not block the result: a
\* geocode call whose lookup found coordinates returns them, whether or not
\* save_cache succeeded.
C17_ResultDespiteSaveFailure ==
    \A k \in CacheKeys : \A i \in 1..Len(calls[k]) :
        calls[k][i].outcome = "found" => calls[k][i].ret \in GeoResults

\* C12: a location record whose structured data embeds coordinates causes
\* no geocoding request, and the lat/lon of the emitted record are exactly
\* the embedded values.
C12_EmbeddedCoordinatesTrusted ==
    (emitted # None /\ emitted.embedded # None)
    => (emitted.net = 0 /\ emitted.lat_lon = emitted.embedded)

----------------------------------------------------------------------------
(* Claims about merge/dedup (SpecMerge) *)

\* the positions of the input records with the key k
C13_Group(k) == {i \in 1..Len(m_in) : key_of(m_kind, m_in[i]) = k}

\* the earliest position of group k with the greatest description length
C13_Best(k) ==
    CHOOSE i \in C13_Group(k) :
        /\ \A j \in C13_Group(k) :
              Len(m_in[j].description) <= Len(m_in[i].description)
        /\ \A j \in C13_Group(k) :
              Len(m_in[j].description) = Len(m_in[i].description) => i <= j

\* C13: for every input sequence the output of merge/dedup holds exactly
\* one record per key (first 30 characters of the name, then "_", then the
\* date or the first 20 characters of the address); that record has the
\* greatest description length of its group and, among the records of
\* that length, is the earliest seen.
C13_OnePerKeyLongestEarliest ==
    m_out # None =>
        /\ \A i \in 1..Len(m_in) :
              \E j \in 1..Len(m_out) :
                 key_of(m_kind, m_out[j]) = key_of(m_kind, m_in[i])
        /\ \A i, j \in 1..Len(m_out) :
              key_of(m_kind, m_out[i]) = key_of(m_kind, m_out[j]) => i = j
        /\ \A j \in 1..Len(m_out) :
              /\ C13_Group(key_of(m_kind, m_out[j])) # {}
              /\ m_out[j] = m_in[C13_Best(key_of(m_kind, m_out[j]))]

\* three records of one key, different in their full names: a short
\* description first, then two longer ones of equal length
C13_Witness ==
    /\ m_out # None
    /\ Len(m_in) = 3
    /\ Len(m_out) = 1
    /\ Len(m_in[1].description) < Len(m_in[2].description)
    /\ Len(m_in[3].description) = Len(m_in[2].description)
    /\ m_in[3] # m_in[2]
    /\ m_out[1] = m_in[2]

\* the records of all in the order p the workers completed in
C32_Order(all, p) == [i \in 1..Len(all) |-> all[p[i]]]

C32_Set(q) == {q[i] : i \in 1..Len(q)}

\* C32: the set of records after merge/dedup is the same for every order
\* in which the workers complete: for the records the sources returned,
\* every order of all_events gives the same set.
C32_OrderIndependent ==
    (m_kind = "events" /\ m_out # None) =>
        \A p \in Permutations(1..Len(m_in)) :
            C32_Set(dedup(m_kind, C32_Order(m_in, p))) = C32_Set(m_out)

----------------------------------------------------------------------------
(* Claims about the batch and about main (SpecMain) *)

\* C14: in get_events_from_all_sources the failure of the crawl of any
\* sources (the html entry without a url, whose worker raises; a page that
\* does not answer or whose harvest raises) does not end the batch: the
\* function stays in its loop until every source is done, every record a
\* crawled source returned is in all_events, and the dedup takes all_events.
C14_BatchCompletes ==
    /\ mpc = "events" => phase = "events"
    /\ phase = "events" =>
          /\ DOMAIN returned = (EventSources \ todo) \ {BadEntry}
          /\ \A src \in DOMAIN returned : \A i \in 1..returned[src] :
                \E j \in 1..Len(all_events) : all_events[j] = RecordOf(src, i)
    /\ mpc = "geocoder" =>
          /\ todo = {}
          /\ main_events = manual_events \o dedup("events", all_events)

\* the batch is over: the worker of the entry without a url raised, the
\* page did not answer or its harvest raised, feed and calendar gave a
\* record each
C14_Witness ==
    /\ mpc = "geocoder"
    /\ Len(all_events) = 2
    /\ "http://a/1" \in DOMAIN stats_file
    /\ stats_file["http://a/1"].attempts = 1
    /\ stats_file["http://a/1"].successes = 0

\* the events the run of main crawled
C15_Crawled ==
    SubSeq(wrote.events, Len(wrote.manual) + 1, Len(wrote.events))

\* C15: when a run of main harvests zero events, the events list the
\* output file held is written back unchanged; when it harvests zero
\* locations, the locations list is written back unchanged.
C15_ZeroHarvestKeepsLists ==
    wrote # None =>
        /\ C15_Crawled = <<>>
              => GetList(output_file, "events") = GetList(wrote.before, "events")
        /\ wrote.locations = <<>>
              => GetList(output_file, "locations")
                    = GetList(wrote.before, "locations")

\* C15, amended: the events list of the output file is written back
\* unchanged when the run has no event at all, neither crawled nor from
\* manual_events.json; with manual events and zero crawled events the
\* list becomes the sorted manual events.  The locations list is written
\* back unchanged when zero locations were crawled.
C15_NoRecordsKeepsLists ==
    wrote # None =>
        /\ wrote.events = <<>>
              => GetList(output_file, "events") = GetList(wrote.before, "events")
        /\ (C15_Crawled = <<>> /\ wrote.manual # <<>>)
              => output_file["events"] = sorted("events", wrote.manual)
        /\ wrote.locations = <<>>
              => GetList(output_file, "locations")
                    = GetList(wrote.before, "locations")

\* a run without any record after a run that wrote events and locations
C15_Witness ==
    /\ wrote # None
    /\ wrote.events = <<>>
    /\ wrote.locations = <<>>
    /\ Len(GetList(wrote.before, "events")) >= 2
    /\ Len(GetList(wrote.before, "locations")) >= 1
    /\ output_file["events"] = wrote.before["events"]
    /\ output_file["locations"] = wrote.before["locations"]

----------------------------------------------------------------------------
(* Claims about the worker threads (SpecWorkers) *)

\* the record calls that have returned
C16_Records == done["record_ok"] + done["record_failed"]

\* C16: whenever no worker is inside a call, the counters are what some
\* sequential order of the returned calls gives: the failure counter of
\* the domain lies between max(0, failures - successes) and failures, and
\* the quality entry of the url counts every record call.
C16_NoLostUpdate ==
    (\A w \in Workers : wpc[w] = "idle") =>
        /\ failure_count[WDomain] >= Max(0, done["failure"] - done["success"])
        /\ failure_count[WDomain] <= done["failure"]
        /\ C16_Records > 0 =>
              /\ WUrl \in DOMAIN stats
              /\ stats[WUrl].attempts = C16_Records
              /\ stats[WUrl].successes = done["record_ok"]
              /\ stats[WUrl].total_events = WFound * done["record_ok"]

\* C30: any two returns of wait for one domain, by the same worker or by
\* two workers, are at least the effective interval of the domain apart.
C30_WaitSpacing ==
    wait_gap # <<>>
    => wait_gap[1] >= limit(base_limit(WDomain), failure_count[WDomain])

----------------------------------------------------------------------------
(* Claims about the structured data of a page (SpecExtract) *)

\* C18: the id of a record is a function of its stored name, date and
\* link: any two event records whose stored name, date and link are
\* identical have the same id.
C18_IdFromStoredTriple ==
    x_kind = "events" =>
        \A a, b \in x_found :
            (a.name = b.name /\ a.date = b.date /\ a.link = b.link)
            => a.id = b.id

\* the entry e of the page has its record
C19_Found(e) ==
    \E r \in x_found : r.name = Take(e.name, NAME_STORED)

\* C19: on a page without malformed entries the extraction finds every
\* well-formed, named entry of a target type (Event; Place, LocalBusiness,
\* TouristAttraction) in each shape: single object, @graph collection,
\* bare list.
C19_EveryShapeFound ==
    ~x_malformed => \A e \in x_expected : C19_Found(e)

\* C20: a malformed entry of a page (a block that cannot be parsed, an item
\* of an @graph collection or of a list that is no object) is skipped
\* alone: the page is not aborted and every well-formed entry of a target
\* type is extracted, here for the events, all of whose shapes are looked
\* at.
C20_OnlyMalformedSkipped ==
    (x_kind = "events" /\ x_malformed) =>
        /\ ~x_aborted
        /\ \A e \in x_expected : C19_Found(e)

\* the step is a geocode call for key k whose request raised
C29_ErrorStep(k) ==
    /\ Len(calls'[k]) = Len(calls[k]) + 1
    /\ calls'[k][Len(calls'[k])].outcome = "error"

\* C29: when the geocoding request itself raises, geocode returns None and
\* leaves the cache and the cache file as they were, without an entry for
\* the key, so the next call for the same address sends a request again.
C29_ErrorLeavesCache ==
    /\ [][\A k \in CacheKeys :
            C29_ErrorStep(k)
            => /\ calls'[k][Len(calls'[k])].ret = None
               /\ cache' = cache
               /\ cache_file' = cache_file
               /\ k \notin DOMAIN cache']_vars
    /\ [](\A k \in CacheKeys : \A i \in 1..Len(calls[k]) :
            (calls[k][i].outcome = "error" /\ i < Len(calls[k]))
            => calls[k][i + 1].net = 1)

C29_Witness ==
    \E k \in CacheKeys :
        /\ Len(calls[k]) = 2
        /\ calls[k][1].outcome = "error"
        /\ calls[k][2].outcome = "error"
        /\ calls[k][1].addr # calls[k][2].addr
        /\ k \notin DOMAIN cache_file

----------------------------------------------------------------------------
(* Claims about the fetch of a source (SpecQuality) *)

\* C21: every HTTP request made for a configured source, of every type
\* (feed, HTML page, calendar, location page), is sent by SessionManager.get,
\* which calls the throttle's wait for the domain first.
C21_EveryFetchThroughFetcher ==
    \A src \in DOMAIN fetched :
        fetched[src] \in {"none", "SessionManager.get"}

----------------------------------------------------------------------------
(* Claims about the functions of a text (SpecText) *)

\* the fixed set of category tags
C23_Tags == {"theater", "museum", "outdoor", "indoor", "kreativ",
             "schwimmbad", "sport", "musik", "kino", "festival", "event"}

\* the rows of the table one of whose keywords occurs in the text t
C23_Matching(t) ==
    {i \in 1..Len(CATEGORY_TABLE) : any_in(CATEGORY_TABLE[i].keywords, t)}

\* C23: for every text, the empty text and None included, map_category
\* returns one tag of the fixed set: the category of the first row of the
\* table one of whose keywords occurs in the lower-cased text, and "event"
\* when no row has one.
C23_FirstMatchingRow ==
    t_op = "map_category" =>
        LET rows == C23_Matching(to_lower(or_empty(t_in)))
        IN  /\ t_out \in C23_Tags
            /\ rows = {} => t_out = "event"
            /\ rows # {} =>
                 t_out = CATEGORY_TABLE[CHOOSE i \in rows :
                                           \A j \in rows : i <= j].category

C23_Witness ==
    /\ t_op = "map_category"
    /\ C23_Matching(to_lower(t_in)) = {3, 4, 5}
    /\ t_out = "outdoor"

\* C24: on a page without structured data whose candidate elements are
\* three fragments whose visible text differs only in whitespace, the
\* fallback of harvest_html returns exactly one record.
C24_NearDuplicatesGiveOne ==
    t_op = "harvest_html" => Len(t_out) = 1

\* the fields of r that the item it was made from did not have
C26_Derived(r) == DOMAIN r \ {"name", "description", "category", "link"}

\* r and q have the same derived fields with the same values
C26_SameDerived(r, q) ==
    /\ C26_Derived(r) = C26_Derived(q)
    /\ \A k \in C26_Derived(r) : r[k] = q[k]

\* the items with the name, description and category of item
C26_Alike(items, item) ==
    {o \in items : /\ o["name"] = item["name"]
                   /\ o["description"] = item["description"]
                   /\ o["category"] = item["category"]}

\* C26: enrichment is idempotent and a function of the base fields only:
\* enriching an enriched record changes nothing, the fields of the record
\* before enrichment keep their values, and the derived fields are the same
\* for any two records with the same name, description and category; for
\* enrich_for_kids and for enrich_location without a geocoder.
C26_EnrichIdempotent ==
    /\ t_op = "enrich_for_kids" =>
          /\ t_out.twice = t_out.once
          /\ \A k \in DOMAIN t_in : t_out.once[k] = t_in[k]
          /\ \A o \in C26_Alike(KidsItems, t_in) :
                C26_SameDerived(enrich_for_kids(o), t_out.once)
    /\ t_op = "enrich_location" =>
          /\ t_out.twice = t_out.once
          /\ \A k \in DOMAIN t_in : t_out.once[k] = t_in[k]
          /\ \A o \in C26_Alike(PlaceItems, t_in) :
                C26_SameDerived(enrich_location_NoGeocoder(o), t_out.once)

C26_Witness ==
    /\ t_op = "enrich_for_kids"
    /\ Len(t_in["name"]) > NAME_KIDS
    /\ t_out.twice["nameKids"][1] = "classical building"
    /\ t_out.twice["ageGroups"] = <<"3-6">>
    /\ t_out.twice["weatherDependent"] = "indoor"

----------------------------------------------------------------------------
(* Claims about the skip state and the recording (SpecQuality) *)

\* the entry of url in st, <<>> without one
C27_Entry(st, url) == IF url \in DOMAIN st THEN st[url] ELSE <<>>

C28_Count(st, url, field) ==
    IF url \in DOMAIN st THEN st[url][field] ELSE 0

\* C28: every call of harvest_html or harvest_locations that is not skipped
\* calls record exactly once, whichever way it returns: the attempts of the
\* url have grown by exactly one since the tracker loaded its stats, and
\* the successes by one exactly when the call returned at least one record.
C28_RecordedOnce ==
    \A src \in DOMAIN returned :
        (src[1] \in {"html", "locations"} /\ src \notin skipped)
        => /\ C28_Count(stats, src[2], "attempts")
                = C28_Count(stats_file, src[2], "attempts") + 1
           /\ C28_Count(stats, src[2], "successes")
                = C28_Count(stats_file, src[2], "successes")
                  + (IF returned[src] >= 1 THEN 1 ELSE 0)

C28_Witness ==
    \E src \in DOMAIN returned :
        /\ src[1] = "html"
        /\ src \notin skipped
        /\ returned[src] = 0
        /\ stats[src[2]].attempts = 3
        /\ stats[src[2]].successes = 2

----------------------------------------------------------------------------
(* Claims about the totals of the output file (SpecMain) *)

\* C33: after main has written the output file, metadata.totalEvents is the
\* number of records of the events list of the file and
\* metadata.totalLocations the number of records of its locations list,
\* also in a run that harvested nothing.
C33_TotalsMatchLists ==
    wrote # None =>
        /\ output_file["metadata"].totalEvents
               = Len(GetList(output_file, "events"))
        /\ output_file["metadata"].totalLocations
               = Len(GetList(output_file, "locations"))

----------------------------------------------------------------------------
(* Claims about the two strategies of a page (SpecExtract) *)

\* C34: in harvest_html and harvest_locations the selector fallback runs
\* only when the structured data of the page gave no record; when it gave
\* one or more, exactly those records are returned and the source is
\* recorded as a success; the records of a page are never of both
\* strategies.
C34_FallbackOnlyWithoutStructured ==
    x_ret.done =>
        /\ x_ret.fallback => x_found = {}
        /\ x_found # {} =>
              /\ x_ret.records = JsonLd(x_found)
              /\ x_ret.success
        /\ \/ x_ret.records \subseteq JsonLd(x_found)
           \/ x_ret.records \subseteq Selector(x_ret.selected)

----------------------------------------------------------------------------
(* Claims about the entries of the quality tracker (SpecQuality) *)

\* p = q for fractions with positive denominators
C35_Same(p, q) == p[1] * q[2] = q[1] * p[2]

\* C35: after any sequence of record calls every entry of the tracker has
\* 0 <= successes <= attempts, attempts >= 1 and total_events >= 0; the
\* quality score of a seen source is successes / attempts and lies in
\* [0, 1], that of an unseen source is 0.5.
C35_EntriesAndScore ==
    \A url \in SourceUrls :
        IF url \in DOMAIN stats
        THEN LET e == stats[url]
                 score == get_quality_score(stats, url)
             IN  /\ 0 <= e.successes
                 /\ e.successes <= e.attempts
                 /\ e.attempts >= 1
                 /\ e.total_events >= 0
                 /\ score[2] > 0
                 /\ C35_Same(score, <<e.successes, e.attempts>>)
                 /\ ~Less(score, <<0, 1>>)
                 /\ ~Less(<<1, 1>>, score)
        ELSE C35_Same(get_quality_score(stats, url), <<1, 2>>)

\* a source recorded with successes and failures, next to an unseen one
C35_Witness ==
    /\ \E url \in DOMAIN stats :
          /\ stats[url].successes >= 1
          /\ stats[url].attempts > stats[url].successes
    /\ \E url \in SourceUrls : url \notin DOMAIN stats

----------------------------------------------------------------------------
(* Claims about the order of the category table (SpecText) *)

\* the keyword k of row i has the keyword l of another row j inside it
C36_Inside(i, k, j, l) ==
    i # j /\ Len(k) > Len(l) /\ Contains(k, l)

\* C36: in the table of map_category the row of a keyword comes before
\* every other row that has a keyword which is a part of it (the more
\* specific keyword is scanned first), so a text that is a keyword of the
\* table gets the category of the row of that keyword.
C36_SpecificFirst ==
    /\ \A i, j \in 1..Len(CATEGORY_TABLE) :
          \A k \in CATEGORY_TABLE[i].keywords :
             \A l \in CATEGORY_TABLE[j].keywords :
                C36_Inside(i, k, j, l) => i < j
    /\ t_op = "map_category" =>
          \A i \in 1..Len(CATEGORY_TABLE) :
             to_lower(or_empty(t_in)) \in CATEGORY_TABLE[i].keywords
             => t_out = CATEGORY_TABLE[i].category

----------------------------------------------------------------------------
(* Claims about the threads and the geocoder (SpecUnits) *)

\* the threads inside Geocoder.geocode
C37_InGeocode == {t \in Threads : u_at[t] = "geocode"}

\* C37: at most one geocode call is in progress at any time of a run: no
\* two threads are inside Geocoder.geocode, with its cache and its
\* last_request_time, at once.
C37_OneGeocodeAtATime == Cardinality(C37_InGeocode) <= 1

\* main inside geocode for the first of two records of a location page,
\* after the pool harvested the events
C37_Witness ==
    /\ u_phase = "locations"
    /\ u_at[MainThread] = "geocode"
    /\ u_left[MainThread] = 2

----------------------------------------------------------------------------
(* Claims about short (SpecText) *)

C38_Breaks(str) == {i \in 1..Len(str) : str[i] \in {"\r", "\n"}}

\* C38: short is idempotent, short(short(text, limit), limit) =
\* short(text, limit) for every text and every limit >= 1; its result has
\* no line break and at most limit characters; a text within the limit
\* that has no line break and no whitespace at its ends is returned as it
\* is.
C38_ShortIdempotent ==
    t_op = "short" =>
        LET text == t_in[1]
            lim == t_in[2]
        IN  /\ t_out.twice = t_out.once
            /\ C38_Breaks(t_out.once) = {}
            /\ Len(t_out.once) <= lim
            /\ (/\ text # NoneText
                /\ Len(text) <= lim
                /\ C38_Breaks(text) = {}
                /\ rstrip_ws(lstrip_ws(text)) = text)
               => t_out.once = text

\* a text with a line break inside that is cut right after a space
C38_Witness ==
    /\ t_op = "short"
    /\ C38_Breaks(t_in[1]) # {}
    /\ Len(t_out.once) = t_in[2]
    /\ t_out.once = <<"a", " ", ELLIPSIS>>

----------------------------------------------------------------------------
(* Claims about normalize_date (SpecText) *)

\* str is a civil date YYYY-MM-DD
C39_CivilDate(str) ==
    /\ Len(str) = 10
    /\ IsIso(str)
    /\ SubSeq(str, 6, 7) \in {TWO_DIGITS[m] : m \in 1..12}
    /\ str[9] \in {"0", "1", "2", "3"}
    /\ SubSeq(str, 9, 10) # <<"0", "0">>

\* the inputs of the model without a date in them
C39_Unparseable == {<<"x", "y", "z">>, <<"9", ".", " ", "F", "o", "o", " ", "2", "0", "2", "5">>, <<>>, NoneText}

\* C39: normalize_date is total: for a datetime, a text with a date, a
\* text without one, the empty text and None it returns a civil date
\* YYYY-MM-DD and does not raise; an input that cannot be parsed gives the
\* date of the run.
C39_NormalizeDateTotal ==
    t_op = "normalize_date" =>
        /\ C39_CivilDate(t_out)
        /\ t_in \in C39_Unparseable => t_out = Today

\* None gives the date of the run
C39_Witness ==
    /\ t_op = "normalize_date"
    /\ t_in = NoneText
    /\ t_out = Today

====
